---- MODULE Spec2Model ----
(***************************************************************************)
(* Model of the SQLite worker (schema migrations, bulk BVL import, binary  *)
(* import, metadata accessors), and of the BVL sync orchestrator that      *)
(* drives it.  Two generations of the worker and of the orchestrator are   *)
(* part of the repository; the variable `build` selects the worker         *)
(* ("current": schema version 4, "legacy": schema version 2) and the       *)
(* variable `variant` selects the orchestrator ("A": the first            *)
(* syncBvlData of bvlSync.js, "B": the second).                            *)
(***************************************************************************)
EXTENDS Integers, Sequences, FiniteSets, TLC

VARIABLES
  build,          \* which worker file runs: "current" or "legacy"
  opfs,           \* whether the engine offers OPFS (sqlite3.opfs)
  sqlite3,        \* the engine module is loaded (sqlite3 !== null)
  db,             \* the worker's db variable: "null", "open" or "closed"
  dbKind,         \* what db refers to: the "opfs" file or a "memory" database
  isInitialized,  \* the worker's isInitialized flag
  currentMode,    \* the worker's currentMode variable
  fk,             \* PRAGMA foreign_keys of the connection
  file,           \* content of the persistent file /pflanzenschutz.sqlite
  mem,            \* content of the in-memory database behind db
  job,            \* the synchronous import that is executing, if any
  pendingInit,    \* init calls awaiting the engine load
  pendingImport,  \* importDB calls awaiting OpfsDb.importDb
  last,           \* the last response posted, with what its handler saw
  hist,           \* history of the run (handles created, versions seen)
  nreq,           \* number of requests received so far
  tableColumnCache,  \* the worker's Map from table name to column list
  mig,            \* a database under repeated applySchema runs (SpecSchema)
  variant,        \* which syncBvlData of bvlSync.js runs: "A" or "B"
  remote,         \* what the BVL API serves
  sync,           \* the running syncBvlData call (SpecSync)
  bvl,            \* the data the caller holds and the answer to its last
                  \* call into the BVL tables (SpecBvl, SpecQuery)
  channel,        \* the messages between the main thread and the worker,
                  \* and the handlers suspended at an await (SpecMessages)
  zulassung       \* the search of the approvals view: state.zulassung and
                  \* the searches in flight (SpecMessages)

workerVars ==
  <<opfs, sqlite3, db, dbKind, isInitialized, currentMode, fk, file, mem,
    job, pendingInit, pendingImport, last, hist, nreq, tableColumnCache>>

syncVars == <<variant, remote, sync>>

uiVars == <<channel, zulassung>>

vars == <<build, workerVars, mig, syncVars, bvl, uiVars>>

Builds == {"current", "legacy"}

(***************************************************************************)
(* Bounds of the model.                                                    *)
(***************************************************************************)
MaxRuns == 2        \* applySchema runs on one database in SpecSchema

(***************************************************************************)
(* Tables.                                                                 *)
(***************************************************************************)
BaseTables ==
  {"meta", "measurement_methods", "mediums", "history", "history_items"}

RegTables ==
  {"bvl_mittel", "bvl_awg", "bvl_awg_kultur", "bvl_awg_schadorg",
   "bvl_awg_aufwand", "bvl_awg_wartezeit"}

LookupTables == {"bvl_lookup_kultur", "bvl_lookup_schadorg"}

DataTables == RegTables \cup LookupTables

LegacyBvlTables == RegTables \cup {"bvl_meta", "bvl_sync_log"}

BvlTables == LegacyBvlTables \cup LookupTables

ExtrasTable == "bvl_mittel_extras"

MetaKeys == {"lastSyncHash", "lastSyncIso"}

Null == "null"

NoRows == [t \in DataTables |-> {}]

NoMeta == [k \in MetaKeys |-> Null]

\* the user tables next to mediums, whose rows the model keeps by id
UserTables == BaseTables \ {"mediums"}

NoUserRows == [t \in UserTables |-> {}]

(***************************************************************************)
(* A database: the persisted schema version (PRAGMA user_version), the set *)
(* of tables, the rows of the regulatory and lookup tables, the bvl_meta   *)
(* key/value pairs, the bvl_sync_log rows and the ids of the mediums rows. *)
(***************************************************************************)
\* the columns of bvl_mittel as CREATE TABLE bvl_mittel declares them
MittelColumns ==
  <<"kennr", "name", "formulierung", "zul_erstmalig", "zul_ende",
    "geringes_risiko", "payload_json">>

\* the columns of the other BVL tables as their CREATE TABLE statements
\* declare them
TableColumns(t) ==
  CASE t = "bvl_awg" -> <<"awg_id", "kennr", "status_json", "zulassungsende">>
    [] t = "bvl_awg_kultur" ->
         <<"awg_id", "kultur", "ausgenommen", "sortier_nr">>
    [] t = "bvl_awg_schadorg" ->
         <<"awg_id", "schadorg", "ausgenommen", "sortier_nr">>
    [] t = "bvl_awg_aufwand" ->
         <<"awg_id", "aufwand_bedingung", "sortier_nr", "mittel_menge",
           "mittel_einheit", "wasser_menge", "wasser_einheit",
           "payload_json">>
    [] t = "bvl_awg_wartezeit" ->
         <<"awg_wartezeit_nr", "awg_id", "kultur", "sortier_nr", "tage",
           "bemerkung_kode", "anwendungsbereich", "erlaeuterung",
           "payload_json">>
    [] t \in LookupTables -> <<"code", "label">>
    [] t = "bvl_meta" -> <<"key", "value">>
    [] OTHER -> <<"id">>

MkStore(ver, tables, rows, meta, log) ==
  [ver |-> ver, tables |-> tables, rows |-> rows, meta |-> meta, log |-> log,
   mediums |-> {}, mittelColumns |-> MittelColumns, user |-> NoUserRows,
   extras |-> {}]

EmptyStore == MkStore(0, {}, NoRows, NoMeta, <<>>)

(***************************************************************************)
(* SQL statements of the migration scripts and their execution.            *)
(***************************************************************************)
CreateTable(t, ifNotExists) ==
  [op |-> "create", t |-> t, v |-> 0, ifne |-> ifNotExists]

DropTable(t) == [op |-> "drop", t |-> t, v |-> 0, ifne |-> TRUE]

CreateIndex(t) == [op |-> "index", t |-> t, v |-> 0, ifne |-> TRUE]

DropIndex(t) == [op |-> "nop", t |-> t, v |-> 0, ifne |-> TRUE]

\* PRAGMA foreign_keys inside an open transaction changes nothing
PragmaForeignKeysInTxn == [op |-> "nop", t |-> "", v |-> 0, ifne |-> TRUE]

PragmaUserVersion(v) == [op |-> "version", t |-> "", v |-> v, ifne |-> TRUE]

\* DROP TABLE removes the table with its rows
DropFrom(s, t) ==
  [s EXCEPT !.tables = @ \ {t},
            !.rows = [u \in DataTables |-> IF u = t THEN {} ELSE @[u]],
            !.meta = IF t = "bvl_meta" THEN NoMeta ELSE @,
            !.log = IF t = "bvl_sync_log" THEN <<>> ELSE @,
            !.mediums = IF t = "mediums" THEN {} ELSE @,
            !.user = [u \in UserTables |-> IF u = t THEN {} ELSE @[u]],
            !.extras = IF t = ExtrasTable THEN {} ELSE @,
            !.mittelColumns = IF t = "bvl_mittel" THEN MittelColumns ELSE @]

ExecOne(s, st) ==
  CASE st.op = "create" ->
         IF st.t \in s.tables
           THEN [s |-> s, ok |-> st.ifne]
           ELSE [s |-> [s EXCEPT !.tables = @ \cup {st.t}], ok |-> TRUE]
    [] st.op = "drop" -> [s |-> DropFrom(s, st.t), ok |-> TRUE]
    [] st.op = "index" -> [s |-> s, ok |-> st.t \in s.tables]
    [] st.op = "version" -> [s |-> [s EXCEPT !.ver = st.v], ok |-> TRUE]
    [] OTHER -> [s |-> s, ok |-> TRUE]

\* db.exec of a script: statement by statement, stopping at the first error.
\* failAt > 0 makes the engine raise an error (I/O, quota, constraint) at
\* that statement.
RECURSIVE ExecFrom(_, _, _, _)
ExecFrom(s, stmts, i, failAt) ==
  IF i > Len(stmts) THEN [s |-> s, ok |-> TRUE]
  ELSE IF i = failAt THEN [s |-> s, ok |-> FALSE]
  ELSE LET r == ExecOne(s, stmts[i])
       IN IF r.ok THEN ExecFrom(r.s, stmts, i + 1, failAt) ELSE r

\* statements run outside a transaction: each one commits on its own
Autocommit(s, stmts, failAt) == ExecFrom(s, stmts, 1, failAt)

\* BEGIN TRANSACTION; try { ... COMMIT } catch { ROLLBACK; throw }
InTransaction(s, stmts, failAt) ==
  LET r == ExecFrom(s, stmts, 1, failAt)
  IN IF r.ok THEN r ELSE [s |-> s, ok |-> FALSE]

InitialSchemaSql ==
  << CreateTable("meta", TRUE),
     CreateTable("measurement_methods", TRUE),
     CreateTable("mediums", TRUE),
     CreateTable("history", TRUE),
     CreateTable("history_items", TRUE),
     CreateIndex("history"),
     CreateIndex("history_items"),
     CreateIndex("mediums"),
     PragmaUserVersion(1) >>

MigrateV2Sql ==
  << PragmaForeignKeysInTxn,
     DropTable("bvl_lookup_schadorg"),
     DropTable("bvl_lookup_kultur"),
     DropTable("bvl_awg_wartezeit"),
     DropTable("bvl_awg_aufwand"),
     DropTable("bvl_awg_schadorg"),
     DropTable("bvl_awg_kultur"),
     DropTable("bvl_awg"),
     DropTable("bvl_mittel"),
     DropTable("bvl_meta"),
     DropTable("bvl_sync_log"),
     CreateTable("bvl_meta", FALSE),
     CreateTable("bvl_mittel", FALSE),
     CreateTable("bvl_awg", FALSE),
     CreateTable("bvl_awg_kultur", FALSE),
     CreateTable("bvl_awg_schadorg", FALSE),
     CreateTable("bvl_awg_aufwand", FALSE),
     CreateTable("bvl_awg_wartezeit", FALSE),
     CreateTable("bvl_sync_log", FALSE),
     CreateTable("bvl_lookup_kultur", FALSE),
     CreateTable("bvl_lookup_schadorg", FALSE),
     CreateIndex("bvl_awg"),
     CreateIndex("bvl_awg_kultur"),
     CreateIndex("bvl_awg_schadorg"),
     CreateIndex("bvl_awg_aufwand"),
     CreateIndex("bvl_awg_wartezeit"),
     CreateIndex("bvl_lookup_kultur"),
     CreateIndex("bvl_lookup_schadorg"),
     PragmaForeignKeysInTxn,
     PragmaUserVersion(2) >>

MigrateV3Sql == << PragmaUserVersion(3) >>

MigrateV4Sql ==
  << DropTable(ExtrasTable),
     DropIndex("idx_mittel_extras_bio"),
     DropIndex("idx_mittel_extras_oeko"),
     PragmaUserVersion(4) >>

LegacyMigrateV2Sql ==
  << DropTable("bvl_sync_log"),
     DropTable("bvl_awg_wartezeit"),
     DropTable("bvl_awg_aufwand"),
     DropTable("bvl_awg_schadorg"),
     DropTable("bvl_awg_kultur"),
     DropTable("bvl_awg"),
     DropTable("bvl_mittel"),
     DropTable("bvl_meta"),
     CreateTable("bvl_meta", FALSE),
     CreateTable("bvl_mittel", FALSE),
     CreateTable("bvl_awg", FALSE),
     CreateTable("bvl_awg_kultur", FALSE),
     CreateTable("bvl_awg_schadorg", FALSE),
     CreateTable("bvl_awg_aufwand", FALSE),
     CreateTable("bvl_awg_wartezeit", FALSE),
     CreateTable("bvl_sync_log", FALSE),
     CreateIndex("bvl_awg"),
     CreateIndex("bvl_awg_kultur"),
     CreateIndex("bvl_awg_schadorg"),
     CreateIndex("bvl_awg_aufwand"),
     CreateIndex("bvl_awg_wartezeit"),
     PragmaUserVersion(2) >>

\* an injected engine error: statement `at` of migration step `step`
NoInjection == [step |-> 0, at |-> 0]

InjectAt(inj, step) == IF inj.step = step THEN inj.at ELSE 0

NeedsInitialSchemaAlways(currentVersion) == TRUE

\* if (currentVersion === 0)
NeedsInitialSchema(currentVersion) == currentVersion = 0

\* if (currentVersion < target)
NeedsMigration(currentVersion, target) == currentVersion < target

(***************************************************************************)
(* applySchema.  A run is a record: the database, whether the run is still *)
(* going (ok) or has thrown, the steps that were started, the step that    *)
(* failed (0: none), the database as it was when the failing step started, *)
(* and the version read at the start, which guards every step.             *)
(***************************************************************************)
\* const currentVersion = db.selectValue("PRAGMA user_version") || 0
BeginSchema(s) ==
  [s |-> s, ok |-> TRUE, ran |-> {}, failed |-> 0, before |-> s,
   currentVersion |-> s.ver]

\* one step: skipped after an error or when its if is not taken; r is the
\* outcome of the step's statements on run.s
RunStep(run, n, go, r) ==
  IF ~run.ok \/ ~go THEN run
  ELSE [s |-> r.s, ok |-> r.ok, ran |-> run.ran \cup {n},
        failed |-> IF r.ok THEN 0 ELSE n,
        before |-> IF r.ok THEN r.s ELSE run.s,
        currentVersion |-> run.currentVersion]

\* if (currentVersion === 0) { db.exec(schemaSql) }
InitialSchema(run, inj) ==
  RunStep(run, 1, NeedsInitialSchema(run.currentVersion),
          Autocommit(run.s, InitialSchemaSql, InjectAt(inj, 1)))

\* if (currentVersion < 2) { BEGIN ... COMMIT, or ROLLBACK and throw }
MigrateV2(run, inj) ==
  RunStep(run, 2, NeedsMigration(run.currentVersion, 2),
          InTransaction(run.s, MigrateV2Sql, InjectAt(inj, 2)))

MigrateV3(run, inj) ==
  RunStep(run, 3, NeedsMigration(run.currentVersion, 3),
          InTransaction(run.s, MigrateV3Sql, InjectAt(inj, 3)))

MigrateV4(run, inj) ==
  RunStep(run, 4, NeedsMigration(run.currentVersion, 4),
          InTransaction(run.s, MigrateV4Sql, InjectAt(inj, 4)))

\* legacy worker: if (currentVersion < 2) { db.exec(...); db.exec(...) }
LegacyMigrateV2(run, inj) ==
  RunStep(run, 2, NeedsMigration(run.currentVersion, 2),
          Autocommit(run.s, LegacyMigrateV2Sql, InjectAt(inj, 2)))

applySchema(s, inj) ==
  MigrateV4(MigrateV3(MigrateV2(InitialSchema(BeginSchema(s), inj), inj),
                      inj), inj)

\* applySchema of the legacy worker: two steps, neither in a transaction
applySchemaLegacy(s, inj) ==
  LegacyMigrateV2(InitialSchema(BeginSchema(s), inj), inj)

ApplySchemaOf(b, s, inj) ==
  IF b = "current" THEN applySchema(s, inj) ELSE applySchemaLegacy(s, inj)

\* the last version the build's migration sequence reaches
TargetVersion(b) == IF b = "current" THEN 4 ELSE 2

\* engine errors the model injects into a migration run
Injections ==
  {NoInjection} \cup
  {[step |-> 1, at |-> k] : k \in {1, 3, 6, 9}} \cup
  {[step |-> 2, at |-> k] : k \in {2, 12, 20}} \cup
  {[step |-> 3, at |-> 1], [step |-> 4, at |-> 1], [step |-> 4, at |-> 4]}

(***************************************************************************)
(* Databases in the historical shapes a worker can find when it opens the  *)
(* persistent file.                                                        *)
(***************************************************************************)
HistoricalStores ==
  { MkStore(0, {}, NoRows, NoMeta, <<>>),
    MkStore(0, {"meta", "measurement_methods"}, NoRows, NoMeta, <<>>),
    MkStore(0, BaseTables, NoRows, NoMeta, <<>>),
    MkStore(1, BaseTables, NoRows, NoMeta, <<>>),
    MkStore(1, BaseTables \cup {"bvl_meta", "bvl_mittel"}, NoRows, NoMeta, <<>>),
    MkStore(2, BaseTables \cup LegacyBvlTables, NoRows, NoMeta, <<>>),
    MkStore(2, BaseTables \cup BvlTables, NoRows, NoMeta, <<>>),
    MkStore(3, BaseTables \cup BvlTables, NoRows, NoMeta, <<>>),
    MkStore(3, BaseTables \cup BvlTables \cup {ExtrasTable}, NoRows, NoMeta, <<>>),
    MkStore(4, BaseTables \cup BvlTables, NoRows, NoMeta, <<>>) }

(***************************************************************************)
(* Rows of the BVL tables.                                                 *)
(***************************************************************************)
Mittel(kennr, name, risiko) ==
  [kennr |-> kennr, name |-> name, geringes_risiko |-> risiko]

Awg(awg_id, kennr) == [awg_id |-> awg_id, kennr |-> kennr]

AwgKultur(awg_id, kultur, ausgenommen) ==
  [awg_id |-> awg_id, kultur |-> kultur, ausgenommen |-> ausgenommen]

AwgSchadorg(awg_id, schadorg, ausgenommen) ==
  [awg_id |-> awg_id, schadorg |-> schadorg, ausgenommen |-> ausgenommen]

AwgAufwand(awg_id, bedingung, nr) ==
  [awg_id |-> awg_id, aufwand_bedingung |-> bedingung, sortier_nr |-> nr]

AwgWartezeit(nr, awg_id, tage) ==
  [awg_wartezeit_nr |-> nr, awg_id |-> awg_id, tage |-> tage]

Lookup(code, label) == [code |-> code, label |-> label]

ChildTables ==
  {"bvl_awg_kultur", "bvl_awg_schadorg", "bvl_awg_aufwand",
   "bvl_awg_wartezeit"}

\* the PRIMARY KEY of each table, as the CREATE TABLE statements declare it
PrimaryKey(t, r) ==
  CASE t = "bvl_mittel" -> <<r.kennr>>
    [] t = "bvl_awg" -> <<r.awg_id>>
    [] t = "bvl_awg_kultur" -> <<r.awg_id, r.kultur, r.ausgenommen>>
    [] t = "bvl_awg_schadorg" -> <<r.awg_id, r.schadorg, r.ausgenommen>>
    [] t = "bvl_awg_aufwand" ->
         <<r.awg_id, r.aufwand_bedingung, r.sortier_nr>>
    [] t = "bvl_awg_wartezeit" -> <<r.awg_wartezeit_nr, r.awg_id>>
    [] OTHER -> <<r.code>>

\* a NULL in a key column (the text columns; the model's integer columns
\* are never NULL)
KeyHasNull(t, r) ==
  CASE t = "bvl_mittel" -> r.kennr = Null
    [] t = "bvl_awg_wartezeit" -> r.awg_wartezeit_nr = Null \/ r.awg_id = Null
    [] t \in {"bvl_awg", "bvl_awg_aufwand"} -> r.awg_id = Null
    [] t = "bvl_awg_kultur" -> r.awg_id = Null \/ r.kultur = Null
    [] t = "bvl_awg_schadorg" -> r.awg_id = Null \/ r.schadorg = Null
    [] OTHER -> r.code = Null

\* the REFERENCES clauses: bvl_awg.kennr and the child tables' awg_id
ReferencesParent(s, t, r) ==
  CASE t = "bvl_awg" ->
         r.kennr = Null \/ \E m \in s.rows["bvl_mittel"] : m.kennr = r.kennr
    [] t \in ChildTables ->
         r.awg_id = Null \/ \E a \in s.rows["bvl_awg"] : a.awg_id = r.awg_id
    [] OTHER -> TRUE

ErrNoTable == "no such table"
ErrForeignKey == "FOREIGN KEY constraint failed"
ErrUnique == "UNIQUE constraint failed"
ErrNotInit == "Database not initialized"
ErrClosed == "DB has been closed"
ErrInitFailed == "Database initialization failed"
ErrDeserialize == "sqlite3_deserialize failed"
NoError == ""

\* stmt.bind(row).step() of INSERT [OR REPLACE] INTO t
InsertRow(s, fkOn, t, r, orReplace) ==
  LET key == PrimaryKey(t, r)
      \* a NULL in a key column never equals another key
      clash == IF KeyHasNull(t, r) THEN {}
               ELSE {x \in s.rows[t] : PrimaryKey(t, x) = key}
  IN IF t \notin s.tables THEN [s |-> s, ok |-> FALSE, err |-> ErrNoTable]
     ELSE IF fkOn /\ ~ReferencesParent(s, t, r)
       THEN [s |-> s, ok |-> FALSE, err |-> ErrForeignKey]
     ELSE IF clash # {} /\ ~orReplace
       THEN [s |-> s, ok |-> FALSE, err |-> ErrUnique]
     ELSE [s |-> [s EXCEPT !.rows[t] = (@ \ clash) \cup {r}],
           ok |-> TRUE, err |-> NoError]

\* DELETE FROM each table of ts
ClearTables(s, ts) ==
  IF ts \subseteq s.tables
    THEN [s |-> [s EXCEPT !.rows =
                   [u \in DataTables |-> IF u \in ts THEN {} ELSE @[u]]],
          ok |-> TRUE, err |-> NoError]
    ELSE [s |-> s, ok |-> FALSE, err |-> ErrNoTable]

(***************************************************************************)
(* importBvlDataset: its payload and the order of its inserts.             *)
(***************************************************************************)
Dataset(mittel, awg, kultur, schadorg, aufwand, wartezeit, cultures, pests) ==
  [mittel |-> mittel, awg |-> awg, awg_kultur |-> kultur,
   awg_schadorg |-> schadorg, awg_aufwand |-> aufwand,
   awg_wartezeit |-> wartezeit, culturesLookup |-> cultures,
   pestsLookup |-> pests]

Tagged(t, rs) == [i \in 1..Len(rs) |-> [t |-> t, row |-> rs[i]]]

RegEntries(d) ==
  Tagged("bvl_mittel", d.mittel) \o Tagged("bvl_awg", d.awg)
    \o Tagged("bvl_awg_kultur", d.awg_kultur)
    \o Tagged("bvl_awg_schadorg", d.awg_schadorg)
    \o Tagged("bvl_awg_aufwand", d.awg_aufwand)
    \o Tagged("bvl_awg_wartezeit", d.awg_wartezeit)

\* current worker: the six regulatory tables, then the two lookup tables
ImportEntries(d) ==
  RegEntries(d) \o Tagged("bvl_lookup_kultur", d.culturesLookup)
    \o Tagged("bvl_lookup_schadorg", d.pestsLookup)

\* legacy worker: the six regulatory tables
LegacyImportEntries(d) == RegEntries(d)

EntriesOf(b, d) ==
  IF b = "current" THEN ImportEntries(d) ELSE LegacyImportEntries(d)

\* the tables the import empties first
DeleteList == RegTables \cup LookupTables

LegacyDeleteList == RegTables

DeleteListOf(b) == IF b = "current" THEN DeleteList ELSE LegacyDeleteList

\* INSERT OR REPLACE (current worker) or plain INSERT (legacy worker)
OrReplaceOf(b) == b = "current"

NoRollback(snap, cur) == cur

\* db.exec("ROLLBACK"): the database as it was at BEGIN TRANSACTION
Rollback(snap, cur) == snap

DispatchAnytime(j) == TRUE

\* a message handler starts only when no handler is executing: the import
\* has no await between BEGIN TRANSACTION and COMMIT or ROLLBACK
CanDispatch(j) == j.op = "none"

NoGuard(d) == FALSE

\* if (!db) throw new Error("Database not initialized")
DbMissing(d) == d = "null"

D1 ==
  Dataset(<<Mittel("k1", "Alpha", 1)>>, <<Awg("a1", "k1")>>,
          <<AwgKultur("a1", "c1", 0), AwgKultur("a1", "c1", 1)>>,
          <<AwgSchadorg("a1", "p1", 0)>>, <<>>, <<>>,
          <<Lookup("c1", "Apfel")>>, <<>>)

D2 ==
  Dataset(<<Mittel("k2", "Beta", 0)>>, <<Awg("a2", "k2")>>, <<>>, <<>>,
          <<AwgAufwand("a2", "b", 1)>>, <<AwgWartezeit("1", "a2", 7)>>,
          <<>>, <<>>)

\* the second application row names a product that is not in the payload
DBadAwg ==
  Dataset(<<Mittel("k1", "Alpha", 1)>>,
          <<Awg("a1", "k1"), Awg("a2", "k9")>>, <<>>, <<>>, <<>>, <<>>,
          <<>>, <<>>)

\* a culture row names an application that is not in the payload
DBadChild ==
  Dataset(<<Mittel("k2", "Beta", 0)>>, <<Awg("a2", "k2")>>,
          <<AwgKultur("a9", "c1", 0)>>, <<>>, <<>>, <<>>, <<>>, <<>>)

\* the same product twice
DDup ==
  Dataset(<<Mittel("k1", "Alpha", 1), Mittel("k1", "Alpha2", 0)>>,
          <<>>, <<>>, <<>>, <<>>, <<>>, <<>>, <<>>)

Datasets == {D1, D2, DBadAwg, DBadChild, DDup}

\* the rows an import of D1 leaves
RowsD1 ==
  [t \in DataTables |->
     CASE t = "bvl_mittel" -> {Mittel("k1", "Alpha", 1)}
       [] t = "bvl_awg" -> {Awg("a1", "k1")}
       [] t = "bvl_awg_kultur" ->
            {AwgKultur("a1", "c1", 0), AwgKultur("a1", "c1", 1)}
       [] t = "bvl_awg_schadorg" -> {AwgSchadorg("a1", "p1", 0)}
       [] t = "bvl_lookup_kultur" -> {Lookup("c1", "Apfel")}
       [] OTHER -> {}]

\* the rows an import of D2 leaves
RowsD2 ==
  [t \in DataTables |->
     CASE t = "bvl_mittel" -> {Mittel("k2", "Beta", 0)}
       [] t = "bvl_awg" -> {Awg("a2", "k2")}
       [] t = "bvl_awg_aufwand" -> {AwgAufwand("a2", "b", 1)}
       [] t = "bvl_awg_wartezeit" -> {AwgWartezeit("1", "a2", 7)}
       [] OTHER -> {}]

(***************************************************************************)
(* Messages.  The main thread posts {id, action, payload} to the worker    *)
(* and the worker posts {id, ok, result} or {id, ok, error} back; the      *)
(* caller's promise settles when the response with its id arrives.  A      *)
(* handler that reaches an await (the engine load of init, OpfsDb.importDb *)
(* of importDB) is suspended and later messages are handled meanwhile.     *)
(***************************************************************************)
MaxMessages == 3     \* requests posted to the worker

\* cases of the switch of self.onmessage that the model posts
KnownActions == {"init", "importDB", "queryZulassung"}

\* the handlers with an await that can leave the request pending
Awaiting == {"init", "importDB"}

\* what callers other than the search post; the last is no case of the switch
PostedActions == {"init", "importDB", "exportPdf"}

Request(id, action) == [id |-> id, action |-> action]

Response(id, ok, error) == [id |-> id, ok |-> ok, error |-> error]

\* how a called function ends: it returns (NoError) or throws
HandlerOutcomes == {NoError, ErrNotInit}

ErrUnknownAction(action) == "Unknown action: " \o action

NoChannel ==
  [next |-> 1, inbox |-> <<>>, received |-> {}, latest |-> 0, frames |-> {},
   posted |-> <<>>, delivered |-> 0]

\* state.zulassung with the searches in flight; results and error hold the
\* id of the search they came from, 0 for none
NoSearch ==
  [issued |-> {}, pending |-> {}, results |-> 0, error |-> 0, busy |-> FALSE,
   currentRequest |-> Null, aborted |-> {}]

\* a handler that took the id from a variable all invocations share
SharedId(frame, latest) == latest

\* const { id, action, payload } = event.data: each invocation has its own
ResponseId(frame, latest) == frame.id

\* self.postMessage({id, ok: true, result}) at the end of the try block, or
\* self.postMessage({id, ok: false, error: error.message}) in the catch
\* block; the default case of the switch throws
PostMessage(c, frame, outcome) ==
  LET id == ResponseId(frame, c.latest)
      r == IF frame.action \notin KnownActions
             THEN Response(id, FALSE, ErrUnknownAction(frame.action))
           ELSE IF outcome = NoError THEN Response(id, TRUE, Null)
           ELSE Response(id, FALSE, outcome)
  IN [c EXCEPT !.posted = Append(@, r)]

\* the request the transport posts for a call
Post(c, action) ==
  [c EXCEPT !.next = @ + 1, !.inbox = Append(@, Request(c.next, action))]

\* a call into the worker from anywhere but the search
PostRequest ==
  /\ channel.next <= MaxMessages
  /\ \E action \in PostedActions : channel' = Post(channel, action)
  /\ UNCHANGED <<build, workerVars, mig, syncVars, bvl, zulassung>>

\* handleSearch up to its await.  The first view tests currentRequest, which
\* nothing ever assigns, and sets busy, which disables the search button;
\* the second view does neither.
handleSearch ==
  /\ channel.next <= MaxMessages
  /\ variant = "A" => ~zulassung.busy
  /\ zulassung' =
       [zulassung EXCEPT
          !.aborted = IF variant = "A" /\ zulassung.currentRequest # Null
                        THEN @ \cup {zulassung.currentRequest} ELSE @,
          !.busy = IF variant = "A" THEN TRUE ELSE @,
          !.error = IF variant = "A" THEN 0 ELSE @,
          !.issued = @ \cup {channel.next},
          !.pending = @ \cup {channel.next}]
  /\ channel' = Post(channel, "queryZulassung")
  /\ UNCHANGED <<build, workerVars, mig, syncVars, bvl>>

\* self.onmessage: the oldest message is taken; the handler runs to its
\* response, or to an await where it is suspended
onmessage ==
  /\ Len(channel.inbox) > 0
  /\ \E awaits \in BOOLEAN, outcome \in HandlerOutcomes :
       LET msg == Head(channel.inbox)
           taken == [channel EXCEPT !.inbox = Tail(@),
                                    !.received = @ \cup {msg},
                                    !.latest = msg.id]
       IN channel' = IF msg.action \in Awaiting /\ awaits
                       THEN [taken EXCEPT !.frames = @ \cup {msg}]
                       ELSE PostMessage(taken, msg, outcome)
  /\ UNCHANGED <<build, workerVars, mig, syncVars, bvl, zulassung>>

\* the awaited promise of a suspended handler settles and the handler runs
\* to its response
resume ==
  /\ \E frame \in channel.frames, outcome \in HandlerOutcomes :
       channel' = PostMessage([channel EXCEPT !.frames = @ \ {frame}],
                              frame, outcome)
  /\ UNCHANGED <<build, workerVars, mig, syncVars, bvl, zulassung>>

\* the continuation of handleSearch after await queryZulassung(filters): the
\* results go into the state, or the error does (the second view then
\* empties the results)
SearchSettled(z, r) ==
  IF r.id \notin z.pending THEN z
  ELSE IF r.ok
    THEN [z EXCEPT !.pending = @ \ {r.id},
                   !.results = r.id,
                   !.error = IF variant = "B" THEN 0 ELSE @,
                   !.busy = IF variant = "A" THEN FALSE ELSE @]
  ELSE [z EXCEPT !.pending = @ \ {r.id},
                 !.error = r.id,
                 !.results = IF variant = "B" THEN 0 ELSE @,
                 !.busy = IF variant = "A" THEN FALSE ELSE @]

\* the main thread takes the next response and settles the promise of the
\* call with that id
onResponse ==
  /\ channel.delivered < Len(channel.posted)
  /\ channel' = [channel EXCEPT !.delivered = @ + 1]
  /\ zulassung' = SearchSettled(zulassung,
                                channel.posted[channel.delivered + 1])
  /\ UNCHANGED <<build, workerVars, mig, syncVars, bvl>>

(***************************************************************************)
(* The worker.                                                             *)
(***************************************************************************)
MaxRequests == 4     \* requests the worker receives
MaxPending == 2      \* init calls awaiting the engine at the same time

NoJob == [op |-> "none", entries |-> <<>>, pos |-> 0, snap |-> EmptyStore]

NoResponse ==
  [action |-> "none", ok |-> TRUE, err |-> NoError, mode |-> Null,
   pre |-> [initsDone |-> 0, failedInit |-> FALSE], changed |-> FALSE,
   seen |-> NoRows, committed |-> NoRows, preRows |-> NoRows]

NoHistory ==
  [initsDone |-> 0, failedInit |-> FALSE, initHandles |-> 0,
   okInitHandles |-> 0, schemaRuns |-> 0, maxVer |-> 0, ranAbove |-> TRUE]

NoMigration ==
  [s |-> EmptyStore, runs |-> 0, start |-> 0, pre |-> EmptyStore, ok |-> TRUE,
   ran |-> {}, failed |-> 0, before |-> EmptyStore, okBefore |-> FALSE]

Active == IF dbKind = "opfs" THEN file ELSE mem

\* the content outside any open transaction
Committed == IF job.op = "none" THEN Active ELSE job.snap

SetActive(s) ==
  IF dbKind = "opfs" THEN file' = s /\ UNCHANGED mem
                     ELSE mem' = s /\ UNCHANGED file

Pre == [initsDone |-> hist.initsDone,
        failedInit |-> hist.failedInit /\ ~isInitialized]

Respond(action, ok, err, mode, changed) ==
  last' = [action |-> action, ok |-> ok, err |-> err, mode |-> mode,
           pre |-> Pre, changed |-> changed, seen |-> NoRows,
           committed |-> NoRows, preRows |-> NoRows]

Receive == CanDispatch(job) /\ nreq < MaxRequests /\ nreq' = nreq + 1

MaxOf(a, b) == IF a >= b THEN a ELSE b

\* files the worker can find in OPFS when it starts
InitialFiles ==
  { EmptyStore,
    MkStore(1, BaseTables, NoRows, NoMeta, <<>>),
    MkStore(2, BaseTables \cup LegacyBvlTables, RowsD2, NoMeta, <<>>),
    MkStore(4, BaseTables \cup BvlTables, RowsD1, NoMeta, <<>>) }

Bytes(valid, s) == [valid |-> valid, s |-> s]

\* the bytes handed to importDB: exported databases of three generations
\* (the oldest from before the BVL tables existed), or bytes that are no
\* database
Snapshots ==
  { Bytes(TRUE, MkStore(1, BaseTables, NoRows, NoMeta, <<>>)),
    Bytes(TRUE, MkStore(2, BaseTables \cup LegacyBvlTables, RowsD2, NoMeta, <<>>)),
    Bytes(TRUE, MkStore(4, BaseTables \cup BvlTables, RowsD2, NoMeta, <<>>)),
    Bytes(FALSE, EmptyStore) }

\* engine errors injected into the migrations that init runs
InitInjections ==
  {NoInjection, [step |-> 1, at |-> 6], [step |-> 2, at |-> 12]}

InitModes == {Null, "memory", "opfs"}

WorkerStart ==
  /\ sqlite3 = FALSE
  /\ db = "null"
  /\ dbKind = "memory"
  /\ isInitialized = FALSE
  /\ currentMode = "memory"
  /\ fk = FALSE
  /\ mem = EmptyStore
  /\ job = NoJob
  /\ pendingInit = <<>>
  /\ pendingImport = <<>>
  /\ last = NoResponse
  /\ hist = NoHistory
  /\ nreq = 0
  /\ tableColumnCache = <<>>

RemoveAt(q, i) == [j \in 1..(Len(q) - 1) |-> IF j < i THEN q[j] ELSE q[j + 1]]

\* detectMode
detectMode == IF opfs THEN "opfs" ELSE "memory"

\* createDatabaseInstance: an OpfsDb only if OPFS is there, else a new DB()
createDatabaseInstance(mode) ==
  IF mode = "opfs" /\ opfs THEN "opfs" ELSE "memory"

(***************************************************************************)
(* initDatabase.  The call returns at once on an initialized worker;       *)
(* otherwise it awaits the engine load and continues in InitLoaded.        *)
(***************************************************************************)
HandleInit ==
  /\ Receive
  /\ \E m \in InitModes :
       IF isInitialized
         THEN /\ Respond("init", TRUE, NoError, Null, FALSE)
              /\ hist' = [hist EXCEPT !.initsDone = @ + 1]
              /\ UNCHANGED pendingInit
         ELSE /\ Len(pendingInit) < MaxPending
              /\ pendingInit' = Append(pendingInit, m)
              /\ UNCHANGED <<last, hist>>
  /\ UNCHANGED <<build, opfs, sqlite3, db, dbKind, isInitialized, currentMode,
                 fk, file, mem, job, pendingImport, mig, bvl, uiVars, syncVars,
                 tableColumnCache>>

\* the import of the engine module, or its start-up, rejects
InitLoadFailed ==
  /\ CanDispatch(job)
  /\ \E i \in 1..Len(pendingInit) :
       pendingInit' = RemoveAt(pendingInit, i)
  /\ Respond("init", FALSE, ErrInitFailed, Null, FALSE)
  /\ hist' = [hist EXCEPT !.initsDone = @ + 1, !.failedInit = TRUE]
  /\ UNCHANGED <<build, opfs, sqlite3, db, dbKind, isInitialized, currentMode,
                 fk, file, mem, job, pendingImport, nreq, mig, bvl,
                 uiVars, syncVars,
                 tableColumnCache>>

\* the engine is loaded: create the handle, configure it, migrate
InitLoaded ==
  /\ CanDispatch(job)
  /\ \E i \in 1..Len(pendingInit), inj \in InitInjections :
       LET mode == IF pendingInit[i] # Null THEN pendingInit[i] ELSE detectMode
           kind == createDatabaseInstance(mode)
           base == IF kind = "opfs" THEN file ELSE EmptyStore
       IN \E r \in {ApplySchemaOf(build, base, inj)} :
          /\ pendingInit' = RemoveAt(pendingInit, i)
          /\ sqlite3' = TRUE
          /\ db' = "open"
          /\ dbKind' = kind
          /\ currentMode' = mode
          /\ fk' = TRUE
          /\ IF kind = "opfs" THEN file' = r.s /\ UNCHANGED mem
                              ELSE mem' = r.s /\ UNCHANGED file
          /\ isInitialized' = (isInitialized \/ r.ok)
          /\ IF r.ok
               THEN Respond("init", TRUE, NoError, mode, TRUE)
               ELSE Respond("init", FALSE, ErrInitFailed, Null, TRUE)
          /\ hist' = [hist EXCEPT
                        !.initsDone = @ + 1,
                        !.failedInit = ~r.ok,
                        !.initHandles = @ + 1,
                        !.okInitHandles = IF r.ok THEN @ + 1 ELSE @,
                        !.schemaRuns = @ + 1,
                        !.maxVer = MaxOf(@, r.s.ver),
                        !.ranAbove = @ /\ \A n \in r.ran : n > base.ver]
          /\ tableColumnCache' = IF r.ok /\ build = "current"
                                   THEN <<>> ELSE tableColumnCache
  /\ UNCHANGED <<build, opfs, job, pendingImport, nreq, mig, bvl,
                 uiVars, syncVars>>

(***************************************************************************)
(* importDB: replaces the database by the given bytes.  With OPFS the      *)
(* handler awaits OpfsDb.importDb and continues in ImportDBOpfsDone.       *)
(***************************************************************************)
HandleImportDB ==
  /\ Receive
  /\ \E bytes \in Snapshots :
       IF DbMissing(db)
         THEN /\ Respond("importDB", FALSE, ErrNotInit, Null, FALSE)
              /\ UNCHANGED <<db, dbKind, isInitialized, currentMode, fk, mem,
                             pendingImport, hist>>
       ELSE IF currentMode = "opfs" /\ sqlite3 /\ opfs
         THEN /\ Len(pendingImport) < MaxPending
              /\ db' = "closed"
              /\ pendingImport' = Append(pendingImport, bytes)
              /\ UNCHANGED <<dbKind, isInitialized, currentMode, fk, mem,
                             last, hist>>
       ELSE IF ~bytes.valid
         THEN /\ db' = "closed"
              /\ Respond("importDB", FALSE, ErrDeserialize, Null, TRUE)
              /\ UNCHANGED <<dbKind, isInitialized, currentMode, fk, mem,
                             pendingImport, hist>>
       ELSE /\ db' = "open"
            /\ dbKind' = "memory"
            /\ mem' = bytes.s
            /\ fk' = TRUE
            /\ currentMode' = "memory"
            /\ isInitialized' = TRUE
            /\ Respond("importDB", TRUE, NoError, "memory", TRUE)
            /\ hist' = [hist EXCEPT !.maxVer = MaxOf(@, bytes.s.ver)]
            /\ UNCHANGED pendingImport
  /\ UNCHANGED <<build, opfs, sqlite3, file, job, pendingInit, mig, bvl,
                 uiVars, syncVars,
                 tableColumnCache>>

\* OpfsDb.importDb settles: the file holds the bytes and is reopened, or the
\* bytes were refused and the handler throws with db left closed
ImportDBOpfsDone ==
  /\ CanDispatch(job)
  /\ \E i \in 1..Len(pendingImport) :
       LET bytes == pendingImport[i]
       IN /\ pendingImport' = RemoveAt(pendingImport, i)
          /\ IF bytes.valid
               THEN /\ file' = bytes.s
                    /\ db' = "open"
                    /\ dbKind' = "opfs"
                    /\ fk' = TRUE
                    /\ currentMode' = "opfs"
                    /\ isInitialized' = TRUE
                    /\ Respond("importDB", TRUE, NoError, "opfs", TRUE)
                    /\ hist' = [hist EXCEPT !.maxVer = MaxOf(@, bytes.s.ver)]
               ELSE /\ Respond("importDB", FALSE, ErrDeserialize, Null, TRUE)
                    /\ UNCHANGED <<file, db, dbKind, fk, currentMode,
                                   isInitialized, hist>>
  /\ UNCHANGED <<build, opfs, sqlite3, mem, job, pendingInit, nreq, mig, bvl,
                 uiVars, syncVars,
                 tableColumnCache>>

(***************************************************************************)
(* importBvlDataset.  The handler is synchronous; the model runs it in     *)
(* steps (BEGIN and the DELETEs, then one INSERT per step, then COMMIT) to *)
(* expose the states in between.                                           *)
(***************************************************************************)
RespondImport(ok, err, changed, preRows) ==
  last' = [action |-> "importBvlDataset", ok |-> ok, err |-> err,
           mode |-> Null, pre |-> Pre, changed |-> changed, seen |-> NoRows,
           committed |-> NoRows, preRows |-> preRows]

ImportBvlDatasetBegin ==
  /\ Receive
  /\ \E d \in Datasets :
       IF DbMissing(db)
         THEN /\ RespondImport(FALSE, ErrNotInit, FALSE, NoRows)
              /\ UNCHANGED <<file, mem, job>>
       ELSE IF db = "closed"
         THEN /\ RespondImport(FALSE, ErrClosed, FALSE, NoRows)
              /\ UNCHANGED <<file, mem, job>>
       ELSE LET c == ClearTables(Active, DeleteListOf(build))
            IN IF c.ok
                 THEN /\ SetActive(c.s)
                      /\ job' = [op |-> "importBvlDataset",
                                 entries |-> EntriesOf(build, d),
                                 pos |-> 1, snap |-> Active]
                      /\ UNCHANGED last
                 ELSE /\ SetActive(Rollback(Active, c.s))
                      /\ RespondImport(FALSE, c.err, FALSE, Active.rows)
                      /\ UNCHANGED job
  /\ UNCHANGED <<build, opfs, sqlite3, db, dbKind, isInitialized, currentMode,
                 fk, pendingInit, pendingImport, hist, mig, bvl,
                 uiVars, syncVars,
                 tableColumnCache>>

ImportBvlDatasetStep ==
  /\ job.op = "importBvlDataset"
  /\ IF job.pos > Len(job.entries)
       THEN /\ RespondImport(TRUE, NoError, TRUE, job.snap.rows)
            /\ job' = NoJob
            /\ UNCHANGED <<file, mem>>
       ELSE LET e == job.entries[job.pos]
                r == InsertRow(Active, fk, e.t, e.row, OrReplaceOf(build))
            IN IF r.ok
                 THEN /\ SetActive(r.s)
                      /\ job' = [job EXCEPT !.pos = @ + 1]
                      /\ UNCHANGED last
                 ELSE /\ SetActive(Rollback(job.snap, Active))
                      /\ RespondImport(FALSE, r.err, FALSE, job.snap.rows)
                      /\ job' = NoJob
  /\ tableColumnCache' = IF job.pos > Len(job.entries) /\ build = "current"
                           THEN <<>> ELSE tableColumnCache
  /\ UNCHANGED <<build, opfs, sqlite3, db, dbKind, isInitialized, currentMode,
                 fk, pendingInit, pendingImport, hist, nreq, mig, bvl,
                 uiVars, syncVars>>

(***************************************************************************)
(* The handlers without an await: metadata, sync log, queries, mediums.    *)
(***************************************************************************)
\* PRAGMA table_info(t): the columns of the CREATE TABLE statement that made
\* the table, nothing for a table the database does not have
TableInfo(s, t) ==
  IF t \notin s.tables THEN <<>>
  ELSE IF t = "bvl_mittel" THEN s.mittelColumns
  ELSE TableColumns(t)

\* getTableColumns(tableName): the cached list if there is one, else the
\* list read from the database, which is then cached
getTableColumns(cache, s, t) ==
  IF t \in DOMAIN cache
    THEN [cache |-> cache, columns |-> cache[t]]
    ELSE [cache |-> [x \in DOMAIN cache \cup {t} |->
                       IF x = t THEN TableInfo(s, t) ELSE cache[x]],
          columns |-> TableInfo(s, t)]

OpResult(s, ok, err, value) == [s |-> s, ok |-> ok, err |-> err, value |-> value]

Requires(s, ts, r) ==
  IF ts \subseteq s.tables THEN r ELSE OpResult(s, FALSE, ErrNoTable, Null)

getBvlMeta(s, key) ==
  Requires(s, {"bvl_meta"}, OpResult(s, TRUE, NoError, s.meta[key]))

setBvlMeta(s, key, value) ==
  Requires(s, {"bvl_meta"},
           OpResult([s EXCEPT !.meta[key] = value], TRUE, NoError, Null))

SyncLogEntry(ok, message, payload_hash) ==
  [ok |-> ok, message |-> message, payload_hash |-> payload_hash]

appendBvlSyncLog(s, entry) ==
  Requires(s, {"bvl_sync_log"},
           OpResult([s EXCEPT !.log = Append(@, entry)], TRUE, NoError, Null))

deleteMedium(s, id) ==
  Requires(s, {"mediums"},
           OpResult([s EXCEPT !.mediums = @ \ {id}], TRUE, NoError, Null))

\* the reads over the regulatory tables (queryZulassung, listBvlCultures,
\* listBvlSchadorg): what they return is drawn from the rows they see
queryZulassung(s) == Requires(s, RegTables, OpResult(s, TRUE, NoError, Null))

SimpleActions ==
  {"getBvlMeta", "setBvlMeta", "appendBvlSyncLog", "deleteMedium",
   "queryZulassung"}

RunAction(a, s) ==
  CASE a = "getBvlMeta" -> getBvlMeta(s, "lastSyncHash")
    [] a = "setBvlMeta" -> setBvlMeta(s, "lastSyncHash", "h1")
    [] a = "appendBvlSyncLog" ->
         appendBvlSyncLog(s, SyncLogEntry(1, "manual", "h1"))
    [] a = "deleteMedium" -> deleteMedium(s, "m1")
    [] OTHER -> queryZulassung(s)

HandleAction ==
  /\ Receive
  /\ \E a \in SimpleActions :
       IF DbMissing(db)
         THEN /\ Respond(a, FALSE, ErrNotInit, Null, FALSE)
              /\ UNCHANGED <<file, mem, tableColumnCache>>
       ELSE IF db = "closed"
         THEN /\ Respond(a, FALSE, ErrClosed, Null, FALSE)
              /\ UNCHANGED <<file, mem, tableColumnCache>>
       ELSE LET r == RunAction(a, Active)
            IN /\ SetActive(r.s)
               /\ tableColumnCache' =
                    IF a = "queryZulassung" /\ build = "current"
                      THEN getTableColumns(
                             getTableColumns(tableColumnCache, Active,
                                             "bvl_mittel").cache,
                             Active, "bvl_awg").cache
                      ELSE tableColumnCache
               /\ last' = [action |-> a, ok |-> r.ok, err |-> r.err,
                           mode |-> Null, pre |-> Pre,
                           changed |-> r.s # Active,
                           seen |-> Active.rows, committed |-> Committed.rows,
                           preRows |-> NoRows]
  /\ UNCHANGED <<build, opfs, sqlite3, db, dbKind, isInitialized, currentMode,
                 fk, job, pendingInit, pendingImport, hist, mig, bvl,
                 uiVars, syncVars>>

(***************************************************************************)
(* importBvlDataset as one call, as the sync orchestrator uses it.         *)
(***************************************************************************)
RECURSIVE InsertFrom(_, _, _, _, _)
InsertFrom(s, fkOn, es, i, orReplace) ==
  IF i > Len(es) THEN [s |-> s, ok |-> TRUE, err |-> NoError]
  ELSE LET r == InsertRow(s, fkOn, es[i].t, es[i].row, orReplace)
       IN IF r.ok THEN InsertFrom(r.s, fkOn, es, i + 1, orReplace) ELSE r

importBvlDataset(b, s, fkOn, d) ==
  LET c == ClearTables(s, DeleteListOf(b))
      r == IF c.ok
             THEN InsertFrom(c.s, fkOn, EntriesOf(b, d), 1, OrReplaceOf(b))
             ELSE c
  IN IF r.ok THEN r
     ELSE [s |-> Rollback(s, r.s), ok |-> FALSE, err |-> r.err]

(***************************************************************************)
(* Text values of the BVL tables.  A cell or a JSON field holds a text or  *)
(* NULL (Null); the texts are ASCII; the integers 0 and 1 of the flag      *)
(* columns are written "0" and "1", which every reader below treats as     *)
(* the numbers.                                                            *)
(***************************************************************************)
WhiteSpace == {" ", "\t"}

RECURSIVE StripLeft(_, _)
StripLeft(x, ws) ==
  IF Len(x) > 0 /\ SubSeq(x, 1, 1) \in ws
    THEN StripLeft(SubSeq(x, 2, Len(x)), ws)
    ELSE x

RECURSIVE StripRight(_, _)
StripRight(x, ws) ==
  IF Len(x) > 0 /\ SubSeq(x, Len(x), Len(x)) \in ws
    THEN StripRight(SubSeq(x, 1, Len(x) - 1), ws)
    ELSE x

\* SQL TRIM(x): NULL for NULL, else x without the spaces at its ends
TRIM(x) == IF x = Null THEN Null ELSE StripRight(StripLeft(x, {" "}), {" "})

\* String.prototype.trim(): x without the white space at its ends
trim(x) == StripRight(StripLeft(x, WhiteSpace), WhiteSpace)

\* SQL NULLIF(x, y)
NULLIF(x, y) == IF x = y THEN Null ELSE x

\* SQL COALESCE(x1, ..., xn): the first argument that is not NULL
RECURSIVE COALESCE(_)
COALESCE(xs) ==
  IF Len(xs) = 0 THEN Null
  ELSE IF Head(xs) # Null THEN Head(xs)
  ELSE COALESCE(Tail(xs))

UpperCase == "ABCDEFGHIJKLMNOPQRSTUVWXYZ"

LowerCase == "abcdefghijklmnopqrstuvwxyz"

Digits == "0123456789"

LowerChar(c) ==
  IF \E i \in 1..Len(UpperCase) : SubSeq(UpperCase, i, i) = c
    THEN LET i == CHOOSE k \in 1..Len(UpperCase) : SubSeq(UpperCase, k, k) = c
         IN SubSeq(LowerCase, i, i)
    ELSE c

\* String.prototype.toLowerCase()
RECURSIVE toLowerCase(_)
toLowerCase(x) ==
  IF Len(x) = 0 THEN ""
  ELSE LowerChar(SubSeq(x, 1, 1)) \o toLowerCase(SubSeq(x, 2, Len(x)))

\* SQL LOWER(x)
LOWER(x) == IF x = Null THEN Null ELSE toLowerCase(x)

\* x LIKE '%term%' for a term without wildcards; NULL LIKE ... is not true
LIKE(x, term) ==
  /\ x # Null
  /\ \E i \in 1..(Len(x) - Len(term) + 1) :
       toLowerCase(SubSeq(x, i, i + Len(term) - 1)) = toLowerCase(term)

\* the keys of a product's JSON payload the worker looks at
PayloadKeys ==
  {"mittelname", "mittel_name", "mittelName", "name", "zul_ende",
   "zulassungsende", "gueltig_bis", "gueltigBis",
   "mittel_mit_geringem_risiko"}

\* a payload: the text under each key, Null under a key the object does not
\* have.  A row without payload holds the empty object, which every reader
\* treats as it treats NULL.
Payload(object) ==
  [k \in PayloadKeys |-> IF k \in DOMAIN object THEN object[k] ELSE Null]

NoPayload == [k \in PayloadKeys |-> Null]

\* json_extract(payload_json, '$.key')
json_extract(payload_json, key) == payload_json[key]

\* has(columns, c): columns.includes(c)
includes(columns, c) == \E i \in DOMAIN columns : columns[i] = c

\* pickFirstNonEmpty(...values): the first value that is neither null nor
\* blank, trimmed
RECURSIVE pickFirstNonEmpty(_)
pickFirstNonEmpty(values) ==
  IF Len(values) = 0 THEN Null
  ELSE IF Head(values) = Null \/ trim(Head(values)) = ""
    THEN pickFirstNonEmpty(Tail(values))
  ELSE trim(Head(values))

\* toBooleanFlag(value)
toBooleanFlag(value) ==
  IF value = Null THEN 0
  ELSE IF toLowerCase(trim(value)) \in {"1", "true", "ja", "yes", "y"} THEN 1
  ELSE 0

\* CASE WHEN CAST(v AS INTEGER) = 1 THEN 1
\*      WHEN LOWER(v) IN ('true', 'ja') THEN 1 ELSE 0 END
\* for v = json_extract(payload_json, '$.mittel_mit_geringem_risiko'); the
\* cast reads the digits a text starts with
PayloadRisk(payload_json) ==
  LET v == json_extract(payload_json, "mittel_mit_geringem_risiko")
      digits == {SubSeq(Digits, i, i) : i \in 1..Len(Digits)}
      castIsOne ==
        /\ v # Null
        /\ LET t == StripLeft(v, {" "})
           IN /\ Len(t) > 0
              /\ SubSeq(t, 1, 1) = "1"
              /\ (Len(t) = 1 \/ SubSeq(t, 2, 2) \notin digits)
  IN IF castIsOne THEN "1"
     ELSE IF v # Null /\ LOWER(v) \in {"true", "ja"} THEN "1"
     ELSE "0"

\* the day a date text names, counted in the calendar of the model: 0 is
\* what DATE(x) and Date.parse give for a text that is no ISO date
Today == 2

DateTexts == <<"2000-01-01", "2024-06-01", "2999-12-31">>

DATE(x) ==
  IF \E i \in DOMAIN DateTexts : DateTexts[i] = x
    THEN CHOOSE i \in DOMAIN DateTexts : DateTexts[i] = x
    ELSE 0

(***************************************************************************)
(* Rows of bvl_mittel and bvl_awg with the cells the readers look at.  A   *)
(* cell of a column the table does not have is never read.                 *)
(***************************************************************************)
MittelRow(kennr, name, mittelname, mittel_name, zul_ende, geringes_risiko,
          payload_json) ==
  [kennr |-> kennr, name |-> name, mittelname |-> mittelname,
   mittel_name |-> mittel_name, zul_ende |-> zul_ende,
   geringes_risiko |-> geringes_risiko, payload_json |-> payload_json]

AwgRow(awg_id, kennr, zulassungsende) ==
  [awg_id |-> awg_id, kennr |-> kennr, zulassungsende |-> zulassungsende]

\* the payload of queryZulassung; Null for a field that is left out
Filter(culture, pest, text, includeExpired, mittel) ==
  [culture |-> culture, pest |-> pest, text |-> text,
   includeExpired |-> includeExpired, mittel |-> mittel]

\* NULLIF(TRIM(x), '')
NonBlank(x) == NULLIF(TRIM(x), "")

\* COALESCE(nameExprParts..., m.kennr)
rawNameExpr(mittelColumns, m) ==
  COALESCE(
    (IF includes(mittelColumns, "name")
       THEN <<NonBlank(m.name)>> ELSE <<>>)
    \o (IF includes(mittelColumns, "mittelname")
          THEN <<NonBlank(m.mittelname)>> ELSE <<>>)
    \o (IF includes(mittelColumns, "mittel_name")
          THEN <<NonBlank(m.mittel_name)>> ELSE <<>>)
    \o (IF includes(mittelColumns, "payload_json")
          THEN <<NonBlank(json_extract(m.payload_json, "mittelname")),
                 NonBlank(json_extract(m.payload_json, "mittel_name")),
                 NonBlank(json_extract(m.payload_json, "mittelName")),
                 NonBlank(json_extract(m.payload_json, "name"))>>
          ELSE <<>>)
    \o <<m.kennr>>)

\* zulEndeExprParts; the tables of the model have no m.zulassungsende
zulEndeExprParts(mittelColumns, awgColumns, m, a) ==
  (IF includes(mittelColumns, "zul_ende")
     THEN <<NonBlank(m.zul_ende)>> ELSE <<>>)
  \o (IF includes(awgColumns, "zulassungsende")
        THEN <<NonBlank(a.zulassungsende)>> ELSE <<>>)
  \o (IF includes(mittelColumns, "payload_json")
        THEN <<NonBlank(json_extract(m.payload_json, "zul_ende")),
               NonBlank(json_extract(m.payload_json, "zulassungsende")),
               NonBlank(json_extract(m.payload_json, "gueltig_bis"))>>
        ELSE <<>>)

rawZulEndeExpr(mittelColumns, awgColumns, m, a) ==
  COALESCE(zulEndeExprParts(mittelColumns, awgColumns, m, a))

\* COALESCE(geringesParts..., 0)
selectGeringesExpr(mittelColumns, m) ==
  COALESCE(
    (IF includes(mittelColumns, "geringes_risiko")
       THEN <<m.geringes_risiko>> ELSE <<>>)
    \o (IF includes(mittelColumns, "payload_json")
          THEN <<PayloadRisk(m.payload_json)>> ELSE <<>>)
    \o <<"0">>)

\* the name cells the free-text search looks into
textColumnExprs(mittelColumns, m) ==
  <<m.kennr>>
  \o (IF includes(mittelColumns, "name") THEN <<m.name>> ELSE <<>>)
  \o (IF includes(mittelColumns, "mittelname")
        THEN <<m.mittelname>> ELSE <<>>)
  \o (IF includes(mittelColumns, "mittel_name")
        THEN <<m.mittel_name>> ELSE <<>>)
  \o (IF includes(mittelColumns, "payload_json")
        THEN <<json_extract(m.payload_json, "mittelname"),
               json_extract(m.payload_json, "mittel_name"),
               json_extract(m.payload_json, "mittelName")>>
        ELSE <<>>)

\* the culture clause had it no join with the lookup table
cultureFilterClauseOnCode(s, a, term) ==
  \E ak \in s.rows["bvl_awg_kultur"] :
    ak.awg_id = a.awg_id /\ LIKE(ak.kultur, term)

\* EXISTS (SELECT 1 FROM <assoc> x LEFT JOIN <lookup> l ON l.code = x.<code>
\*         WHERE x.awg_id = a.awg_id
\*           AND (LOWER(x.<code>) LIKE ? OR LOWER(IFNULL(l.label, '')) LIKE ?))
cultureFilterClause(s, a, term) ==
  \E ak \in s.rows["bvl_awg_kultur"] :
    /\ ak.awg_id = a.awg_id
    /\ \/ LIKE(ak.kultur, term)
       \/ \E lk \in s.rows["bvl_lookup_kultur"] :
            lk.code = ak.kultur /\ LIKE(lk.label, term)

pestFilterClause(s, a, term) ==
  \E aso \in s.rows["bvl_awg_schadorg"] :
    /\ aso.awg_id = a.awg_id
    /\ \/ LIKE(aso.schadorg, term)
       \/ \E ls \in s.rows["bvl_lookup_schadorg"] :
            ls.code = aso.schadorg /\ LIKE(ls.label, term)

\* if (text) { ... conditions.push(combinedTextConditions joined by OR) }
TextCondition(mittelColumns, s, m, a, text) ==
  LET searchTerm == toLowerCase(text)
      exprs == textColumnExprs(mittelColumns, m)
  IN \/ \E i \in DOMAIN exprs : LIKE(LOWER(exprs[i]), searchTerm)
     \/ cultureFilterClause(s, a, searchTerm)
     \/ pestFilterClause(s, a, searchTerm)

\* /^[0-9a-z]+-[0-9a-z]+$/i
isExactKennr(normalized) ==
  LET alnum == {SubSeq(LowerCase, i, i) : i \in 1..Len(LowerCase)}
                 \cup {SubSeq(Digits, i, i) : i \in 1..Len(Digits)}
  IN \E k \in 2..(Len(normalized) - 1) :
       /\ SubSeq(normalized, k, k) = "-"
       /\ \A i \in (1..Len(normalized)) \ {k} :
            toLowerCase(SubSeq(normalized, i, i)) \in alnum

\* if (mittel) { ... }
MittelCondition(mittelColumns, m, mittel) ==
  LET normalized == toLowerCase(trim(mittel))
      mittelExprs ==
        <<m.kennr>>
        \o (IF includes(mittelColumns, "name") THEN <<m.name>> ELSE <<>>)
        \o (IF includes(mittelColumns, "mittelname")
              THEN <<m.mittelname>> ELSE <<>>)
        \o (IF includes(mittelColumns, "mittel_name")
              THEN <<m.mittel_name>> ELSE <<>>)
        \o (IF includes(mittelColumns, "payload_json")
              THEN <<json_extract(m.payload_json, "mittelname")>> ELSE <<>>)
  IN IF isExactKennr(normalized)
       THEN LOWER(m.kennr) = normalized
       ELSE \E i \in DOMAIN mittelExprs : LIKE(LOWER(mittelExprs[i]), normalized)

\* if (!includeExpired) { if (rawZulEndeExpr) { (expr IS NULL OR
\* DATE(expr) >= DATE('now')) } }; the tables of the model have no
\* a.payload_json.  A text that is no date makes the comparison NULL.
ExpiryCondition(mittelColumns, awgColumns, m, a) ==
  LET e == rawZulEndeExpr(mittelColumns, awgColumns, m, a)
  IN \/ Len(zulEndeExprParts(mittelColumns, awgColumns, m, a)) = 0
     \/ e = Null
     \/ (DATE(e) # 0 /\ DATE(e) >= Today)

\* mittelPayload = mittelHasPayload ? safeJsonParse(row.payload_json) : {}
mittelPayload(mittelColumns, m) ==
  IF includes(mittelColumns, "payload_json") THEN m.payload_json
  ELSE NoPayload

\* result.name = resolvedName || result.kennr, for the selected name
\* rawNameExpr
resolvedName(mittelColumns, m) ==
  LET p == mittelPayload(mittelColumns, m)
      picked ==
        pickFirstNonEmpty(<<rawNameExpr(mittelColumns, m),
                            json_extract(p, "mittelname"),
                            json_extract(p, "mittel_name"),
                            json_extract(p, "mittelName"),
                            json_extract(p, "name"),
                            m.kennr>>)
  IN IF picked # Null THEN picked ELSE m.kennr

\* result.zul_ende = resolvedExpiry || null; the tables of the model have no
\* a.payload_json, so awgPayload is the empty object
resolvedExpiry(mittelColumns, awgColumns, m, a) ==
  LET p == mittelPayload(mittelColumns, m)
  IN pickFirstNonEmpty(<<rawZulEndeExpr(mittelColumns, awgColumns, m, a),
                         json_extract(p, "zul_ende"),
                         json_extract(p, "zulassungsende"),
                         json_extract(p, "gueltig_bis"),
                         json_extract(p, "gueltigBis")>>)

\* Math.max(toBooleanFlag(result.geringes_risiko),
\*          toBooleanFlag(mittelPayload.mittel_mit_geringem_risiko)) === 1
geringesValue(mittelColumns, m) ==
  MaxOf(toBooleanFlag(selectGeringesExpr(mittelColumns, m)),
        toBooleanFlag(json_extract(mittelPayload(mittelColumns, m),
                                   "mittel_mit_geringem_risiko"))) = 1

\* the row the SELECT yields for a product and one of its applications,
\* after the enrichment loop
EnrichedResult(mittelColumns, awgColumns, m, a) ==
  [kennr |-> m.kennr,
   name |-> resolvedName(mittelColumns, m),
   zul_ende |-> resolvedExpiry(mittelColumns, awgColumns, m, a),
   geringes_risiko |-> geringesValue(mittelColumns, m),
   awg_id |-> a.awg_id]

\* the tables the statement of queryZulassung names
QueryTables(payload) ==
  {"bvl_mittel", "bvl_awg"}
    \cup (IF payload.culture # Null \/ payload.text # Null
            THEN {"bvl_awg_kultur"} ELSE {})
    \cup (IF payload.pest # Null \/ payload.text # Null
            THEN {"bvl_awg_schadorg"} ELSE {})
    \cup (IF payload.text # Null THEN LookupTables ELSE {})

\* queryZulassung(payload): SELECT DISTINCT ... FROM bvl_mittel m JOIN
\* bvl_awg a ON m.kennr = a.kennr WHERE <conditions>, each row enriched
queryZulassungResults(mittelColumns, awgColumns, s, payload) ==
  { EnrichedResult(mittelColumns, awgColumns, ma[1], ma[2]) :
      ma \in { x \in s.rows["bvl_mittel"] \X s.rows["bvl_awg"] :
        LET m == x[1]
            a == x[2]
        IN /\ m.kennr # Null
           /\ m.kennr = a.kennr
           /\ payload.culture # Null =>
                \E ak \in s.rows["bvl_awg_kultur"] :
                  ak.awg_id = a.awg_id /\ ak.kultur = payload.culture
           /\ payload.pest # Null =>
                \E aso \in s.rows["bvl_awg_schadorg"] :
                  aso.awg_id = a.awg_id /\ aso.schadorg = payload.pest
           /\ payload.text # Null =>
                TextCondition(mittelColumns, s, m, a, payload.text)
           /\ payload.mittel # Null =>
                MittelCondition(mittelColumns, m, payload.mittel)
           /\ ~payload.includeExpired =>
                ExpiryCondition(mittelColumns, awgColumns, m, a) } }

\* listBvlMittel() had it no eye for the key mittelName
listBvlMittelWithoutCamelCase(mittelColumns, s) ==
  { LET payload == IF includes(mittelColumns, "payload_json")
                     THEN m.payload_json ELSE NoPayload
        name == IF includes(mittelColumns, "name") THEN m.name
                ELSE IF includes(mittelColumns, "mittelname")
                  THEN m.mittelname
                ELSE IF includes(mittelColumns, "mittel_name")
                  THEN m.mittel_name
                ELSE Null
        picked ==
          pickFirstNonEmpty(<<name, json_extract(payload, "mittelname"),
                              json_extract(payload, "mittel_name"),
                              m.kennr>>)
    IN [kennr |-> m.kennr,
        name |-> IF picked # Null THEN picked ELSE m.kennr] :
      m \in s.rows["bvl_mittel"] }

\* listBvlMittel(): the one name column selected, then pickFirstNonEmpty
listBvlMittelResults(mittelColumns, s) ==
  { LET payload == IF includes(mittelColumns, "payload_json")
                     THEN m.payload_json ELSE NoPayload
        name == IF includes(mittelColumns, "name") THEN m.name
                ELSE IF includes(mittelColumns, "mittelname")
                  THEN m.mittelname
                ELSE IF includes(mittelColumns, "mittel_name")
                  THEN m.mittel_name
                ELSE Null
        picked ==
          pickFirstNonEmpty(<<name, json_extract(payload, "mittelname"),
                              json_extract(payload, "mittel_name"),
                              json_extract(payload, "mittelName"),
                              m.kennr>>)
    IN [kennr |-> m.kennr,
        name |-> IF picked # Null THEN picked ELSE m.kennr] :
      m \in s.rows["bvl_mittel"] }

\* the UPDATE statements of hydrateBvlMittelFromPayload on one row
HydratedRow(columns, m) ==
  LET hasName == includes(columns, "name")
      hasMittelname == includes(columns, "mittelname")
      p == m.payload_json
      fromPayload == <<NonBlank(json_extract(p, "mittelname")),
                       NonBlank(json_extract(p, "mittel_name")),
                       NonBlank(json_extract(p, "mittelName"))>>
  IN [m EXCEPT
        !.name =
          IF hasName
            THEN COALESCE(<<NonBlank(m.name)>>
                          \o (IF hasMittelname
                                THEN <<NonBlank(m.mittelname)>> ELSE <<>>)
                          \o fromPayload \o <<m.name>>)
            ELSE @,
        !.mittelname =
          IF ~hasName /\ hasMittelname
            THEN COALESCE(<<NonBlank(m.mittelname)>> \o fromPayload
                          \o <<m.mittelname>>)
            ELSE @,
        !.zul_ende =
          IF includes(columns, "zul_ende")
            THEN COALESCE(<<NonBlank(m.zul_ende),
                            NonBlank(json_extract(p, "zul_ende")),
                            NonBlank(json_extract(p, "zulassungsende")),
                            m.zul_ende>>)
            ELSE @,
        !.geringes_risiko =
          IF includes(columns, "geringes_risiko")
            THEN COALESCE(<<m.geringes_risiko, PayloadRisk(p), "0">>)
            ELSE @]

(***************************************************************************)
(* importBvlDataset with the rows as the caller hands them over: what the  *)
(* INSERT statements bind of each item.                                    *)
(***************************************************************************)
\* an element of payload.mittel; Null for a property the item does not have
MittelItem(kennr, name, mittelname, zul_ende, geringes_risiko,
           payload_json) ==
  [kennr |-> kennr, name |-> name, mittelname |-> mittelname,
   zul_ende |-> zul_ende, geringes_risiko |-> geringes_risiko,
   payload_json |-> payload_json]

\* stmt.bind([item.kennr, item.name, item.formulierung, item.zul_erstmalig,
\*            item.zul_ende, item.geringes_risiko, item.payload_json])
BindMittel(item) ==
  MittelRow(item.kennr, item.name, Null, Null, item.zul_ende,
            item.geringes_risiko, item.payload_json)

BindAll(items) == [i \in 1..Len(items) |-> BindMittel(items[i])]

ErrNoColumn == "no such column"
ErrIntegrity == "Database integrity check failed"

\* the columns the INSERT OR REPLACE INTO bvl_mittel statement names
InsertMittelColumns == MittelColumns

\* importBvlDataset(payload): the prepare of the bvl_mittel insert fails on
\* a table without one of its columns
importBvlDatasetItems(b, s, fkOn, d) ==
  LET actual == TableInfo(s, "bvl_mittel")
      bound == [d EXCEPT !.mittel = BindAll(@)]
  IN IF /\ "bvl_mittel" \in s.tables
        /\ Len(d.mittel) > 0
        /\ \E i \in DOMAIN InsertMittelColumns :
             ~includes(actual, InsertMittelColumns[i])
       THEN [s |-> s, ok |-> FALSE, err |-> ErrNoColumn]
       ELSE importBvlDataset(b, s, fkOn, bound)

(***************************************************************************)
(* importBvlSqlite: the copy of a foreign database into the BVL tables.    *)
(***************************************************************************)
\* the database the bytes of payload.data hold
ForeignDb(tables, mittelColumns, rows, meta) ==
  [valid |-> TRUE, tables |-> tables, mittelColumns |-> mittelColumns,
   rows |-> rows, meta |-> meta]

\* bytes sqlite3_deserialize refuses
NoDatabase ==
  [valid |-> FALSE, tables |-> {}, mittelColumns |-> <<>>, rows |-> NoRows,
   meta |-> NoMeta]

\* SELECT name FROM sqlite_master WHERE type = 'table' AND name LIKE 'bvl_%'
\* ORDER BY name: the order in which the tables are copied
TablesByName ==
  <<"bvl_awg", "bvl_awg_aufwand", "bvl_awg_kultur", "bvl_awg_schadorg",
    "bvl_awg_wartezeit", "bvl_lookup_kultur", "bvl_lookup_schadorg",
    "bvl_meta", "bvl_mittel", "bvl_sync_log">>

\* PRAGMA table_info(t) on the foreign database
ForeignTableInfo(f, t) ==
  IF t = "bvl_mittel" THEN f.mittelColumns ELSE TableColumns(t)

ColumnSet(columns) == {columns[i] : i \in DOMAIN columns}

\* remoteColumns.filter((col) => mainColumns.includes(col))
commonColumns(remoteColumns, mainColumns) ==
  {c \in ColumnSet(remoteColumns) : includes(mainColumns, c)}

\* SELECT <common columns> FROM the foreign table, inserted into the local
\* one: a cell of a column that is not copied is NULL
Project(r, common) ==
  [c \in DOMAIN r |->
     IF c \in common THEN r[c]
     ELSE IF c = "payload_json" THEN NoPayload
     ELSE Null]

\* if (!mainTableExists) { mainDb.exec(<the foreign CREATE TABLE>) }
CreateFromForeign(s, f, t) ==
  IF t \in s.tables THEN s
  ELSE [s EXCEPT !.tables = @ \cup {t},
                 !.mittelColumns = IF t = "bvl_mittel"
                                     THEN f.mittelColumns ELSE @]

\* db.exec(`DELETE FROM ${tableName}`), foreign keys being off
DeleteFrom(s, t) ==
  IF t = "bvl_meta" THEN [s EXCEPT !.meta = NoMeta]
  ELSE [s EXCEPT !.rows[t] = {}]

\* the rows of a foreign table
ForeignRows(f, t) ==
  IF t = "bvl_meta"
    THEN {[key |-> k, value |-> f.meta[k]] :
            k \in {x \in MetaKeys : f.meta[x] # Null}}
    ELSE f.rows[t]

\* INSERT OR REPLACE INTO t (<common columns>) of every foreign row, foreign
\* keys being off; the rows of one table have distinct keys
InsertForeign(s, f, t, common) ==
  IF t = "bvl_meta" THEN [s EXCEPT !.meta = f.meta]
  ELSE [s EXCEPT !.rows[t] = {Project(r, common) : r \in f.rows[t]}]

WithCount(counts, t, n) ==
  [x \in DOMAIN counts \cup {t} |-> IF x = t THEN n ELSE counts[x]]

\* one turn of the loop over the foreign tables; acc holds the local
\* database and the counts so far
CopyTable(acc, f, t) ==
  IF t = "bvl_sync_log" THEN acc
  ELSE LET emptied == DeleteFrom(CreateFromForeign(acc.s, f, t), t)
           common == commonColumns(ForeignTableInfo(f, t),
                                   TableInfo(emptied, t))
       IN IF common = {}
            THEN [s |-> emptied, counts |-> acc.counts]
            ELSE [s |-> InsertForeign(emptied, f, t, common),
                  counts |-> WithCount(acc.counts, t,
                                       Cardinality(ForeignRows(f, t)))]

RECURSIVE CopyTables(_, _, _)
CopyTables(acc, f, i) ==
  IF i > Len(TablesByName) THEN acc
  ELSE IF TablesByName[i] \in f.tables
    THEN CopyTables(CopyTable(acc, f, TablesByName[i]), f, i + 1)
  ELSE CopyTables(acc, f, i + 1)

\* the columns the UPDATE statements of hydrateBvlMittelFromPayload name,
\* given the column list the function read
HydrateColumns(columns) ==
  (IF includes(columns, "name")
     THEN {"name", "payload_json"}
            \cup (IF includes(columns, "mittelname")
                    THEN {"mittelname"} ELSE {})
     ELSE {})
  \cup (IF ~includes(columns, "name") /\ includes(columns, "mittelname")
          THEN {"mittelname", "payload_json"} ELSE {})
  \cup (IF includes(columns, "zul_ende")
          THEN {"zul_ende", "payload_json"} ELSE {})
  \cup (IF includes(columns, "geringes_risiko")
          THEN {"geringes_risiko", "payload_json"} ELSE {})

\* hydrateBvlMittelFromPayload(): the column list comes from getTableColumns
hydrateBvlMittelFromPayload(columns, s) ==
  IF HydrateColumns(columns) = {} THEN [s |-> s, ok |-> TRUE, err |-> NoError]
  ELSE IF "bvl_mittel" \notin s.tables
    THEN [s |-> s, ok |-> FALSE, err |-> ErrNoTable]
  ELSE IF \E c \in HydrateColumns(columns) :
            ~includes(TableInfo(s, "bvl_mittel"), c)
    THEN [s |-> s, ok |-> FALSE, err |-> ErrNoColumn]
  ELSE [s |-> [s EXCEPT !.rows["bvl_mittel"] =
                 {HydratedRow(columns, m) : m \in @}],
        ok |-> TRUE, err |-> NoError]

\* the names queryZulassung resolves for the products of a database
ResolvedNames(s) ==
  {<<m.kennr, resolvedName(TableInfo(s, "bvl_mittel"), m)>> :
     m \in s.rows["bvl_mittel"]}

\* if (manifest) { INSERT OR REPLACE INTO bvl_meta ... }
WriteManifest(s, manifest, now) ==
  IF manifest = Null THEN [s |-> s, ok |-> TRUE, err |-> NoError]
  ELSE IF "bvl_meta" \notin s.tables
    THEN [s |-> s, ok |-> FALSE, err |-> ErrNoTable]
  ELSE [s |-> [s EXCEPT !.meta = [lastSyncHash |-> manifest,
                                  lastSyncIso |-> now]],
        ok |-> TRUE, err |-> NoError]

\* the answer of importBvlSqlite: the database and the column cache it
\* leaves, the counts it returns, and the names queryZulassung resolves just
\* before and just after the hydration
SqliteAnswer(s, cache, ok, err, counts, before, after) ==
  [s |-> s, cache |-> cache, ok |-> ok, err |-> err, counts |-> counts,
   before |-> before, after |-> after]

\* importBvlSqlite({data, manifest}); intact is what PRAGMA integrity_check
\* finds
importBvlSqlite(cache, s, f, manifest, intact, now) ==
  LET copied == CopyTables([s |-> s, counts |-> <<>>], f, 1)
      read == getTableColumns(cache, copied.s, "bvl_mittel")
      hydrated == hydrateBvlMittelFromPayload(read.columns, copied.s)
      written == WriteManifest(hydrated.s, manifest, now)
  IN IF ~f.valid
       THEN SqliteAnswer(s, cache, FALSE, ErrDeserialize, <<>>, {}, {})
     ELSE IF ~hydrated.ok
       THEN SqliteAnswer(Rollback(s, hydrated.s), read.cache, FALSE,
                         hydrated.err, <<>>, {}, {})
     ELSE IF ~written.ok
       THEN SqliteAnswer(Rollback(s, written.s), read.cache, FALSE,
                         written.err, <<>>, {}, {})
     ELSE IF ~intact
       THEN SqliteAnswer(Rollback(s, written.s), read.cache, FALSE,
                         ErrIntegrity, <<>>, {}, {})
     ELSE SqliteAnswer(written.s, <<>>, TRUE, NoError, copied.counts,
                       ResolvedNames(copied.s), ResolvedNames(hydrated.s))

\* the caller's side of the calls into the BVL tables: the datasets and
\* database files it holds, its last call with the argument, and what came
\* back
Held(datasets, databases) == [datasets |-> datasets, databases |-> databases]

NoAnswer ==
  [data |-> Held({}, {}), op |-> "none", src |-> Null, ok |-> TRUE,
   err |-> NoError, counts |-> <<>>, rows |-> {}, before |-> {},
   after |-> {}]

Answer(op, src, ok, err, counts, rows, before, after) ==
  [data |-> bvl.data, op |-> op, src |-> src, ok |-> ok, err |-> err,
   counts |-> counts, rows |-> rows, before |-> before, after |-> after]

(***************************************************************************)
(* The BVL API payload and its transformation (bvlSync.js).                *)
(***************************************************************************)
Endpoints ==
  <<"mittel", "awg", "awg_kultur", "awg_schadorg", "awg_aufwand",
    "awg_wartezeit">>

RawData(mittel, awg, kultur, schadorg, aufwand, wartezeit) ==
  [mittel |-> mittel, awg |-> awg, awg_kultur |-> kultur,
   awg_schadorg |-> schadorg, awg_aufwand |-> aufwand,
   awg_wartezeit |-> wartezeit]

NoRawData == RawData(<<>>, <<>>, <<>>, <<>>, <<>>, <<>>)

RawMittel(kennr, mittelname, risiko) ==
  [kennr |-> kennr, mittelname |-> mittelname, geringes_risiko |-> risiko]

RawAwg(awg_id, kennr) == [awg_id |-> awg_id, kennr |-> kennr]

RawKultur(awg_id, kultur, ausgenommen) ==
  [awg_id |-> awg_id, kultur |-> kultur, ausgenommen |-> ausgenommen]

RawSchadorg(awg_id, schadorg, ausgenommen) ==
  [awg_id |-> awg_id, schadorg |-> schadorg, ausgenommen |-> ausgenommen]

RawAufwand(awg_id, bedingung, nr) ==
  [awg_id |-> awg_id, aufwandbedingung |-> bedingung, sortier_nr |-> nr]

RawWartezeit(nr, awg_id, tage) ==
  [awg_wartezeit_nr |-> nr, awg_id |-> awg_id, tage |-> tage]

\* item.x || ''
OrEmpty(x) == IF x = Null THEN "" ELSE x

\* item.x === 'J' ? 1 : 0
JaNein(x) == IF x = "J" THEN 1 ELSE 0

\* parseInt(item.awg_wartezeit_nr) || 0, the number kept as its numeral
ParseNr(x) == IF x = Null THEN "0" ELSE x

TMittel(item) ==
  Mittel(OrEmpty(item.kennr), OrEmpty(item.mittelname),
         JaNein(item.geringes_risiko))

TAwg(item) == Awg(OrEmpty(item.awg_id), OrEmpty(item.kennr))

TKultur(item) ==
  AwgKultur(OrEmpty(item.awg_id), OrEmpty(item.kultur),
            JaNein(item.ausgenommen))

TSchadorg(item) ==
  AwgSchadorg(OrEmpty(item.awg_id), OrEmpty(item.schadorg),
              JaNein(item.ausgenommen))

TAufwand(item) ==
  AwgAufwand(OrEmpty(item.awg_id), OrEmpty(item.aufwandbedingung),
             item.sortier_nr)

TWartezeitA(item) ==
  AwgWartezeit(ParseNr(item.awg_wartezeit_nr), OrEmpty(item.awg_id),
               item.tage)

\* the second orchestrator leaves awg_wartezeit_nr out, so it is bound NULL
TWartezeitB(item) == AwgWartezeit(Null, OrEmpty(item.awg_id), item.tage)

transformBvlData(rawData) ==
  LET r == rawData
  IN Dataset([i \in DOMAIN r.mittel |-> TMittel(r.mittel[i])],
             [i \in DOMAIN r.awg |-> TAwg(r.awg[i])],
             [i \in DOMAIN r.awg_kultur |-> TKultur(r.awg_kultur[i])],
             [i \in DOMAIN r.awg_schadorg |-> TSchadorg(r.awg_schadorg[i])],
             [i \in DOMAIN r.awg_aufwand |-> TAufwand(r.awg_aufwand[i])],
             [i \in DOMAIN r.awg_wartezeit |-> TWartezeitA(r.awg_wartezeit[i])],
             <<>>, <<>>)

transformDataset(rawData) ==
  LET r == rawData
  IN Dataset([i \in DOMAIN r.mittel |-> TMittel(r.mittel[i])],
             [i \in DOMAIN r.awg |-> TAwg(r.awg[i])],
             [i \in DOMAIN r.awg_kultur |-> TKultur(r.awg_kultur[i])],
             [i \in DOMAIN r.awg_schadorg |-> TSchadorg(r.awg_schadorg[i])],
             [i \in DOMAIN r.awg_aufwand |-> TAufwand(r.awg_aufwand[i])],
             [i \in DOMAIN r.awg_wartezeit |-> TWartezeitB(r.awg_wartezeit[i])],
             <<>>, <<>>)

TransformOf(v, rawData) ==
  IF v = "A" THEN transformBvlData(rawData) ELSE transformDataset(rawData)

RawP1 ==
  RawData(<<RawMittel("k1", "Alpha", "J")>>, <<RawAwg("a1", "k1")>>,
          <<RawKultur("a1", "c1", "N")>>, <<RawSchadorg("a1", "p1", "J")>>,
          <<>>, <<RawWartezeit("1", "a1", 7)>>)

RawP2 ==
  RawData(<<RawMittel("k2", "Beta", "N")>>, <<RawAwg("a2", "k2")>>,
          <<>>, <<>>, <<RawAufwand("a2", "b", 1)>>, <<>>)

\* an application of a product the payload does not carry
RawPBad ==
  RawData(<<RawMittel("k1", "Alpha", "J")>>, <<RawAwg("a3", "k9")>>,
          <<>>, <<>>, <<>>, <<>>)

RawPayloads == {RawP1, RawP2, RawPBad}

\* hashData: the SHA-256 of the payload's JSON text, one digest per payload
hashData(rawData) ==
  CASE rawData = RawP1 -> "h1"
    [] rawData = RawP2 -> "h2"
    [] rawData = RawPBad -> "h3"
    [] OTHER -> "h0"

(***************************************************************************)
(* syncBvlData: one call at a time against an initialized worker.          *)
(***************************************************************************)
MaxSyncs == 2        \* syncBvlData calls in one run

Variants == {"A", "B"}

\* new Date().toISOString() of the n-th call
IsoOf(n) == <<"t1", "t2", "t3", "t4", "t5">>[n]

FetchFailures == {"timeout", "network", "http404", "http500", "other"}

\* the message of the error fetchCollection throws for a failed request
FetchCollectionError(v, kind) ==
  IF v = "A"
    THEN CASE kind = "timeout" -> "Request timeout"
           [] kind = "network" -> "Network error: Failed to fetch"
           [] kind = "http404" -> "HTTP 404: Not Found"
           [] kind = "http500" -> "HTTP 500: Internal Server Error"
           [] OTHER -> "Unexpected API response format"
    ELSE CASE kind = "timeout" -> "Request timeout or cancelled"
           [] kind = "network" -> "Failed to fetch"
           [] kind = "http404" -> "BVL API error: 404 Not Found"
           [] kind = "http500" -> "BVL API error: 500 Internal Server Error"
           [] OTHER -> "BVL API error: 403 Forbidden"

\* String.prototype.includes over the messages the orchestrators build: a
\* text is a message of fetchCollection or of classifyError, bare or behind
\* the prefix the fetch loop puts before it
Includes(text, needle) ==
  LET Found(part) ==
        CASE part \in {"Request timeout", "Request timeout or cancelled"}
               -> needle \in {"timeout"}
                    \/ (needle = "cancelled" /\ part # "Request timeout")
          [] part = "Network error: Failed to fetch"
               -> needle \in {"Failed to fetch", "Network"}
          [] part = "Failed to fetch" -> needle = "Failed to fetch"
          [] part \in {"HTTP 404: Not Found", "BVL API error: 404 Not Found"}
               -> needle = "404"
          [] part \in {"HTTP 500: Internal Server Error",
                       "BVL API error: 500 Internal Server Error"}
               -> needle = "5"
          [] OTHER -> FALSE
      Parts ==
        {FetchCollectionError(v, k) : v \in {"A", "B"}, k \in FetchFailures}
          \cup {"Die Anfrage hat zu lange gedauert oder wurde abgebrochen.",
                "Netzwerkfehler: Bitte überprüfen Sie Ihre Internetverbindung.",
                "Die angeforderte Ressource wurde nicht gefunden.",
                "Der BVL-Server hat einen Fehler zurückgegeben."}
      e == {Endpoints[i] : i \in DOMAIN Endpoints}
  IN \/ Found(text)
     \/ \E p \in Parts :
          \/ \E x \in e : /\ text = "Failed to fetch " \o x \o ": " \o p
                          /\ (needle = "Failed to fetch" \/ Found(p))
          \/ \E x \in e : /\ text = "Fehler beim Laden von " \o x \o ": " \o p
                          /\ Found(p)

\* classifyError(error): the class and the message shown for it
classifyError(message) ==
  IF Includes(message, "timeout") \/ Includes(message, "cancelled")
    THEN [type |-> "timeout",
          message |->
            "Die Anfrage hat zu lange gedauert oder wurde abgebrochen."]
  ELSE IF Includes(message, "Failed to fetch")
            \/ Includes(message, "NetworkError")
    THEN [type |-> "network",
          message |->
            "Netzwerkfehler: Bitte überprüfen Sie Ihre Internetverbindung."]
  ELSE IF Includes(message, "404")
    THEN [type |-> "not_found",
          message |-> "Die angeforderte Ressource wurde nicht gefunden."]
  ELSE IF Includes(message, "5")
    THEN [type |-> "server",
          message |-> "Der BVL-Server hat einen Fehler zurückgegeben."]
  ELSE [type |-> "unknown", message |-> message]

\* the message of the error that ends the fetch loop
FetchErrorMessage(v, endpoint, kind) ==
  IF v = "A"
    THEN "Failed to fetch " \o endpoint \o ": " \o FetchCollectionError(v, kind)
    ELSE "Fehler beim Laden von " \o endpoint \o ": "
           \o classifyError(FetchCollectionError(v, kind)).message

SyncIdle ==
  [pc |-> "idle", n |-> 0, i |-> 0, lastSyncHash |-> Null,
   rawData |-> NoRawData, currentHash |-> Null, err |-> NoError,
   status |-> "none", imports |-> 0,
   start |-> [rows |-> NoRows, hash |-> Null, logLen |-> 0],
   busy |-> FALSE, fetched |-> <<>>, expired |-> FALSE, cause |-> Null,
   errorType |-> Null, imported |-> {}, prev |-> <<>>]

\* the message of the log row written after a successful import
SuccessMessage(v) == IF v = "A" THEN "updated" ELSE "Sync erfolgreich"

\* what the orchestrator gets from a call into the worker: the handler's
\* result, or the rejection the worker posts when the engine raises an error
StorageCall(io, s, r) ==
  IF io THEN r ELSE OpResult(s, FALSE, "disk I/O error", Null)

\* the click on the update button: busy = true, (first UI) the check of
\* navigator.onLine, then syncBvlData up to the answer to
\* getBvlMeta('lastSyncHash').  The button is disabled while busy.
SyncStart ==
  /\ sync.pc \in {"idle", "done"}
  /\ ~sync.busy
  /\ sync.n < MaxSyncs
  /\ \E online, io \in BOOLEAN :
       \E r \in {StorageCall(io, Active, getBvlMeta(Active, "lastSyncHash"))} :
         /\ variant = "B" => online
         /\ ~online => io
         /\ sync' = [SyncIdle EXCEPT
                       !.pc = IF variant = "A" /\ ~online THEN "done"
                              ELSE IF r.ok THEN "fetch" ELSE "failing",
                       !.status = IF variant = "A" /\ ~online THEN "offline"
                                  ELSE "none",
                       !.n = sync.n + 1,
                       !.i = 1,
                       !.lastSyncHash = r.value,
                       !.err = r.err,
                       !.busy = TRUE,
                       !.fetched = IF r.ok /\ (variant = "B" \/ online)
                                     THEN <<Endpoints[1]>> ELSE <<>>,
                       !.imported = sync.imported,
                       !.prev = sync.prev,
                       !.start = [rows |-> Active.rows,
                                  hash |-> Active.meta["lastSyncHash"],
                                  logLen |-> Len(Active.log)]]
  /\ UNCHANGED <<build, workerVars, mig, bvl, uiVars, variant, remote>>

\* rawData[endpoint] = await fetchCollection(endpoint, {signal}); the loop
\* then issues the request for the next endpoint
SyncFetch ==
  /\ sync.pc = "fetch"
  /\ LET endpoint == Endpoints[sync.i]
         more == sync.i < Len(Endpoints)
     IN sync' = [sync EXCEPT
                   !.rawData[endpoint] = remote[endpoint],
                   !.i = @ + 1,
                   !.expired = FALSE,
                   !.fetched = IF more THEN Append(@, Endpoints[sync.i + 1])
                               ELSE @,
                   !.pc = IF more THEN "fetch" ELSE "hash"]
  /\ UNCHANGED <<build, workerVars, mig, bvl, uiVars, variant, remote>>

\* a fetch loop that tries the failed endpoint again
SyncFetchFailsRetry ==
  /\ sync.pc = "fetch"
  /\ \E kind \in FetchFailures \ {"timeout"} :
       sync' = [sync EXCEPT
                  !.cause = kind,
                  !.fetched = Append(@, Endpoints[sync.i]),
                  !.err = FetchErrorMessage(variant, Endpoints[sync.i], kind)]
  /\ UNCHANGED <<build, workerVars, mig, bvl, uiVars, variant, remote>>

\* fetchCollection throws: the loop ends, the error goes to the catch block
SyncFetchFails ==
  /\ sync.pc = "fetch"
  /\ \E kind \in FetchFailures \ {"timeout"} :
       sync' = [sync EXCEPT
                  !.pc = "failing",
                  !.expired = FALSE,
                  !.cause = kind,
                  !.err = FetchErrorMessage(variant, Endpoints[sync.i], kind)]
  /\ UNCHANGED <<build, workerVars, mig, bvl, uiVars, variant, remote>>

\* the 30-second timer of fetchWithTimeout fires while the request is
\* pending.  The second client hands fetch() the combination of the caller's
\* signal and the timer's, so the request is aborted; the first client hands
\* it externalSignal || controller.signal, the caller's signal alone when
\* there is one, so the abort of the timer's controller reaches nothing.
SyncFetchTimeout ==
  /\ sync.pc = "fetch"
  /\ ~sync.expired
  /\ sync' = IF variant = "B"
               THEN [sync EXCEPT
                       !.pc = "failing",
                       !.cause = "timeout",
                       !.err = FetchErrorMessage(variant, Endpoints[sync.i],
                                                 "timeout")]
               ELSE [sync EXCEPT !.expired = TRUE]
  /\ UNCHANGED <<build, workerVars, mig, bvl, uiVars, variant, remote>>

\* currentHash = await hashData(rawData); if (lastHash === currentHash) ...
\* The second orchestrator returns 'no-change' here; the first one logs first.
SyncCompare ==
  /\ sync.pc = "hash"
  /\ LET currentHash == hashData(sync.rawData)
     IN sync' = [sync EXCEPT
                   !.currentHash = currentHash,
                   !.pc = IF sync.lastSyncHash # currentHash THEN "import"
                          ELSE IF variant = "A" THEN "logNoChange"
                          ELSE "done",
                   !.status = IF sync.lastSyncHash = currentHash
                                   /\ variant = "B"
                                THEN "no-change" ELSE @]
  /\ UNCHANGED <<build, workerVars, mig, bvl, uiVars, variant, remote>>

\* first orchestrator: appendBvlSyncLog({ok: 1, message: 'no-change', ...})
SyncLogNoChange ==
  /\ sync.pc = "logNoChange"
  /\ \E io \in BOOLEAN :
     \E r \in {StorageCall(io, Active, appendBvlSyncLog(Active,
                 SyncLogEntry(1, "no-change", sync.currentHash)))} :
        /\ SetActive(r.s)
        /\ sync' = [sync EXCEPT
                      !.pc = IF r.ok THEN "done" ELSE "failing",
                      !.status = IF r.ok THEN "no-change" ELSE @,
                      !.err = r.err]
  /\ UNCHANGED <<build, opfs, sqlite3, db, dbKind, isInitialized, currentMode,
                 fk, job, pendingInit, pendingImport, last, hist, nreq, mig, bvl,
                 uiVars,
                 variant, remote, tableColumnCache>>

\* an orchestrator that goes on to the metadata after a failed import
SyncImportUnchecked ==
  /\ sync.pc = "import"
  /\ \E io \in BOOLEAN :
     \E r \in {StorageCall(io, Active, importBvlDataset(build, Active, fk,
                 TransformOf(variant, sync.rawData)))} :
        /\ SetActive(r.s)
        /\ sync' = [sync EXCEPT
                      !.pc = "meta1",
                      !.imports = @ + 1,
                      !.imported = IF r.ok THEN @ \cup {sync.currentHash}
                                   ELSE @,
                      !.err = r.err]
        /\ tableColumnCache' = IF r.ok /\ build = "current"
                                 THEN <<>> ELSE tableColumnCache
  /\ UNCHANGED <<build, opfs, sqlite3, db, dbKind, isInitialized, currentMode,
                 fk, job, pendingInit, pendingImport, last, hist, nreq, mig, bvl,
                 uiVars,
                 variant, remote>>

\* await importBvlDataset(transform(rawData))
SyncImport ==
  /\ sync.pc = "import"
  /\ \E io \in BOOLEAN :
     \E r \in {StorageCall(io, Active, importBvlDataset(build, Active, fk,
                 TransformOf(variant, sync.rawData)))} :
        /\ SetActive(r.s)
        /\ sync' = [sync EXCEPT
                      !.pc = IF r.ok THEN "meta1" ELSE "failing",
                      !.imports = @ + 1,
                      !.imported = IF r.ok THEN @ \cup {sync.currentHash}
                                   ELSE @,
                      !.err = r.err]
        /\ tableColumnCache' = IF r.ok /\ build = "current"
                                 THEN <<>> ELSE tableColumnCache
  /\ UNCHANGED <<build, opfs, sqlite3, db, dbKind, isInitialized, currentMode,
                 fk, job, pendingInit, pendingImport, last, hist, nreq, mig, bvl,
                 uiVars,
                 variant, remote>>

\* the two setBvlMeta calls: hash then time (first orchestrator), time then
\* hash (second orchestrator)
MetaKeyOf(v, pc) ==
  IF (v = "A") = (pc = "meta1") THEN "lastSyncHash" ELSE "lastSyncIso"

SyncSetMeta ==
  /\ sync.pc \in {"meta1", "meta2"}
  /\ \E io \in BOOLEAN :
     \E key \in {MetaKeyOf(variant, sync.pc)} :
     \E r \in {StorageCall(io, Active, setBvlMeta(Active, key,
                 IF key = "lastSyncHash" THEN sync.currentHash
                                         ELSE IsoOf(sync.n)))} :
        /\ SetActive(r.s)
        /\ sync' = [sync EXCEPT
                      !.pc = IF ~r.ok THEN "failing"
                             ELSE IF sync.pc = "meta1" THEN "meta2"
                             ELSE "logSuccess",
                      !.err = r.err]
  /\ UNCHANGED <<build, opfs, sqlite3, db, dbKind, isInitialized, currentMode,
                 fk, job, pendingInit, pendingImport, last, hist, nreq, mig, bvl,
                 uiVars,
                 variant, remote, tableColumnCache>>

\* appendBvlSyncLog({ok: 1, message, payload_hash: currentHash}); 'updated'
SyncLogSuccess ==
  /\ sync.pc = "logSuccess"
  /\ \E io \in BOOLEAN :
     \E r \in {StorageCall(io, Active, appendBvlSyncLog(Active,
                 SyncLogEntry(1, SuccessMessage(variant), sync.currentHash)))} :
        /\ SetActive(r.s)
        /\ sync' = [sync EXCEPT
                      !.pc = IF r.ok THEN "done" ELSE "failing",
                      !.status = IF r.ok THEN "updated" ELSE @,
                      !.err = r.err]
  /\ UNCHANGED <<build, opfs, sqlite3, db, dbKind, isInitialized, currentMode,
                 fk, job, pendingInit, pendingImport, last, hist, nreq, mig, bvl,
                 uiVars,
                 variant, remote, tableColumnCache>>

\* a catch block that lets a failure of its own log write escape
SyncLogFailureRethrows ==
  /\ sync.pc = "failing"
  /\ \E io \in BOOLEAN :
     \E r \in {StorageCall(io, Active, appendBvlSyncLog(Active,
                 SyncLogEntry(0, sync.err, Null)))} :
        /\ SetActive(r.s)
        /\ sync' = [sync EXCEPT
                      !.pc = IF r.ok THEN "done" ELSE "rejected",
                      !.status = IF r.ok THEN "failed" ELSE @,
                      !.errorType = IF variant = "B" /\ r.ok
                                      THEN classifyError(sync.err).type
                                      ELSE Null]
  /\ UNCHANGED <<build, opfs, sqlite3, db, dbKind, isInitialized, currentMode,
                 fk, job, pendingInit, pendingImport, last, hist, nreq, mig, bvl,
                 uiVars,
                 variant, remote, tableColumnCache>>

\* the catch block: log {ok: 0, message: err.message, payload_hash: null},
\* ignoring a failure of the logging itself, and return 'failed'; the second
\* orchestrator adds the class of the error it caught
SyncLogFailure ==
  /\ sync.pc = "failing"
  /\ \E io \in BOOLEAN :
     \E r \in {StorageCall(io, Active, appendBvlSyncLog(Active,
                 SyncLogEntry(0, sync.err, Null)))} :
        /\ SetActive(r.s)
        /\ sync' = [sync EXCEPT
                      !.pc = "done",
                      !.status = "failed",
                      !.errorType = IF variant = "B"
                                      THEN classifyError(sync.err).type
                                      ELSE Null]
  /\ UNCHANGED <<build, opfs, sqlite3, db, dbKind, isInitialized, currentMode,
                 fk, job, pendingInit, pendingImport, last, hist, nreq, mig, bvl,
                 uiVars,
                 variant, remote, tableColumnCache>>

\* what the click handler does once syncBvlData has settled (or the offline
\* check has thrown): every branch, the catch block included, sets busy to
\* false; the reads in between (loadLookups, getBvlMeta) change nothing
HandleUpdateEnd ==
  /\ sync.pc = "done"
  /\ sync.busy
  /\ sync' = [sync EXCEPT !.busy = FALSE]
  /\ UNCHANGED <<build, workerVars, mig, bvl, uiVars, variant, remote>>

\* between two calls the API can publish another payload
RemoteChanges ==
  /\ sync.pc \in {"idle", "done"}
  /\ sync.n < MaxSyncs
  /\ remote' \in RawPayloads \ {remote}
  /\ UNCHANGED <<build, workerVars, mig, bvl, uiVars, variant, sync>>

InitSync ==
  /\ build \in Builds
  /\ variant \in Variants
  /\ remote \in RawPayloads
  /\ opfs = FALSE
  /\ sqlite3 = TRUE
  /\ db = "open"
  /\ dbKind = "memory"
  /\ isInitialized = TRUE
  /\ currentMode = "memory"
  /\ fk = TRUE
  /\ file = EmptyStore
  /\ mem = ApplySchemaOf(build, EmptyStore, NoInjection).s
  /\ job = NoJob
  /\ pendingInit = <<>>
  /\ pendingImport = <<>>
  /\ last = NoResponse
  /\ hist = NoHistory
  /\ nreq = 0
  /\ tableColumnCache = <<>>
  /\ mig = NoMigration
  /\ bvl = NoAnswer
  /\ channel = NoChannel
  /\ zulassung = NoSearch
  /\ sync = SyncIdle

NextSync ==
  \/ SyncStart
  \/ SyncFetch
  \/ SyncFetchFails
  \/ SyncFetchTimeout
  \/ SyncCompare
  \/ SyncLogNoChange
  \/ SyncImport
  \/ SyncSetMeta
  \/ SyncLogSuccess
  \/ SyncLogFailure
  \/ HandleUpdateEnd
  \/ RemoteChanges

SpecSync == InitSync /\ [][NextSync]_vars

\* every awaited fetch and storage call settles and its continuation runs
SpecSyncFair ==
  /\ SpecSync
  /\ WF_vars(SyncFetch \/ SyncFetchFails)
  /\ WF_vars(SyncCompare \/ SyncLogNoChange \/ SyncImport \/ SyncSetMeta
               \/ SyncLogSuccess \/ SyncLogFailure \/ HandleUpdateEnd)
(***************************************************************************)
(* Two calls of syncBvlData at once.  Each call creates its own            *)
(* AbortController in a local variable; nothing outside the call holds it, *)
(* and neither the handlers nor syncBvlData look for a call in progress.   *)
(* sync is the call whose continuation runs next, sync.prev holds the      *)
(* other one while it waits at an await.                                   *)
(***************************************************************************)
\* syncBvlData is called while the earlier call waits for a fetch
SyncRestart ==
  /\ sync.pc = "fetch"
  /\ Len(sync.prev) = 0
  /\ sync.n < MaxSyncs
  /\ \E io \in BOOLEAN :
       \E r \in {StorageCall(io, Active, getBvlMeta(Active, "lastSyncHash"))} :
         sync' = [SyncIdle EXCEPT
                    !.pc = IF r.ok THEN "fetch" ELSE "failing",
                    !.n = sync.n + 1,
                    !.i = 1,
                    !.lastSyncHash = r.value,
                    !.err = r.err,
                    !.busy = TRUE,
                    !.fetched = IF r.ok THEN <<Endpoints[1]>> ELSE <<>>,
                    !.imported = sync.imported,
                    !.prev = <<sync>>,
                    !.start = [rows |-> Active.rows,
                               hash |-> Active.meta["lastSyncHash"],
                               logLen |-> Len(Active.log)]]
  /\ UNCHANGED <<build, workerVars, mig, bvl, uiVars, variant, remote>>

\* the event loop resumes the other call; the busy flag belongs to the UI
\* state, n and imported count over all calls
SyncSwitch ==
  /\ Len(sync.prev) = 1
  /\ sync.prev[1].pc # "done"
  /\ sync' = [sync.prev[1] EXCEPT
                !.prev = <<[sync EXCEPT !.prev = <<>>]>>,
                !.busy = sync.busy,
                !.n = sync.n,
                !.imported = sync.imported]
  /\ UNCHANGED <<build, workerVars, mig, bvl, uiVars, variant, remote>>

NextOverlap ==
  \/ SyncStart
  \/ SyncRestart
  \/ SyncSwitch
  \/ SyncFetch
  \/ SyncCompare
  \/ SyncLogNoChange
  \/ SyncImport
  \/ SyncSetMeta
  \/ SyncLogSuccess
  \/ SyncLogFailure
  \/ HandleUpdateEnd

SpecOverlap == InitSync /\ [][NextOverlap]_vars
(***************************************************************************)
(* The worker under any sequence of requests.                              *)
(***************************************************************************)
Init ==
  /\ build \in Builds
  /\ opfs \in BOOLEAN
  /\ file \in (IF opfs THEN InitialFiles ELSE {EmptyStore})
  /\ WorkerStart
  /\ mig = NoMigration
  /\ bvl = NoAnswer
  /\ channel = NoChannel
  /\ zulassung = NoSearch
  /\ variant = "A"
  /\ remote = NoRawData
  /\ sync = SyncIdle

Next ==
  \/ HandleInit
  \/ InitLoadFailed
  \/ InitLoaded
  \/ HandleImportDB
  \/ ImportDBOpfsDone
  \/ ImportBvlDatasetBegin
  \/ ImportBvlDatasetStep
  \/ HandleAction

Spec == Init /\ [][Next]_vars

(***************************************************************************)
(* applySchema run repeatedly on one database, in every historical shape.  *)
(***************************************************************************)
\* the database s with rows in every table it has
WithContent(s) ==
  [s EXCEPT
     !.mediums = IF "mediums" \in s.tables THEN {"m1"} ELSE {},
     !.user = [t \in UserTables |-> IF t \in s.tables THEN {"r1"} ELSE {}],
     !.rows = [t \in DataTables |-> IF t \in s.tables THEN RowsD1[t] ELSE {}],
     !.meta = IF "bvl_meta" \in s.tables
                THEN [lastSyncHash |-> "h1", lastSyncIso |-> "t1"]
                ELSE NoMeta,
     !.log = IF "bvl_sync_log" \in s.tables
               THEN <<SyncLogEntry(1, "success", "h1")>> ELSE <<>>,
     !.extras = IF ExtrasTable \in s.tables THEN {"k1"} ELSE {}]

\* the historical shapes, empty and with content
StartingStores ==
  HistoricalStores \cup {WithContent(s) : s \in HistoricalStores}

InitSchema ==
  /\ build \in Builds
  /\ opfs = FALSE
  /\ file = EmptyStore
  /\ WorkerStart
  /\ variant = "A"
  /\ remote = NoRawData
  /\ sync = SyncIdle
  /\ bvl = NoAnswer
  /\ channel = NoChannel
  /\ zulassung = NoSearch
  /\ \E s \in StartingStores :
       mig = [s |-> s, runs |-> 0, start |-> s.ver, pre |-> s, ok |-> TRUE,
              ran |-> {}, failed |-> 0, before |-> s, okBefore |-> FALSE]

RunApplySchema ==
  /\ mig.runs < MaxRuns
  /\ \E inj \in Injections :
       \E r \in {ApplySchemaOf(build, mig.s, inj)} :
          mig' = [s |-> r.s, runs |-> mig.runs + 1, start |-> mig.start,
                  pre |-> mig.s, ok |-> r.ok, ran |-> r.ran,
                  failed |-> r.failed, before |-> r.before,
                  okBefore |-> mig.okBefore \/ (mig.runs > 0 /\ mig.ok)]
  /\ UNCHANGED <<build, workerVars, syncVars, bvl, uiVars>>

NextSchema == RunApplySchema

SpecSchema == InitSchema /\ [][NextSchema]_vars

(***************************************************************************)
(* Calls into the BVL tables of an initialized worker of the current       *)
(* build: importBvlDataset, importBvlSqlite, importDB, queryZulassung and  *)
(* listBvlMittel, one after the other.                                     *)
(***************************************************************************)
\* a backup from before the BVL tables existed and one of the current schema
BvlSnapshots ==
  { Bytes(TRUE, MkStore(1, BaseTables, NoRows, NoMeta, <<>>)),
    Bytes(TRUE, MkStore(4, BaseTables \cup BvlTables, NoRows, NoMeta, <<>>)) }

Manifests == {Null, "h1"}

\* the search terms typed into the free-text field
Terms == {"apfel", "Mehl", "BETA", "zeta"}

\* the payloads of queryZulassung: a product number, a culture, the
\* default, every approval, and the free-text terms with and without the
\* expired approvals
Filters ==
  { Filter(Null, Null, Null, FALSE, "001-00"),
    Filter("c1", Null, Null, FALSE, Null),
    Filter(Null, Null, Null, FALSE, Null),
    Filter(Null, Null, Null, TRUE, Null) }
  \cup {Filter(Null, Null, text, FALSE, Null) : text \in Terms}

\* the columns of bvl_mittel and bvl_awg a query reads from the cache, with
\* the cache they leave
QueryColumns(cache, s) ==
  LET m == getTableColumns(cache, s, "bvl_mittel")
      a == getTableColumns(m.cache, s, "bvl_awg")
  IN [cache |-> a.cache, mittel |-> m.columns, awg |-> a.columns]

\* a statement that names a column the table does not have is refused
KnowsColumns(s, t, columns) ==
  \A i \in DOMAIN columns : includes(TableInfo(s, t), columns[i])

\* the keys of the counts importBvlDataset returns
CountKeys ==
  {"mittel", "awg", "awg_kultur", "awg_schadorg", "awg_aufwand",
   "awg_wartezeit", "lookup_kultur", "lookup_schadorg"}

\* the property of the payload a count is taken from
PayloadField(key) ==
  CASE key = "lookup_kultur" -> "culturesLookup"
    [] key = "lookup_schadorg" -> "pestsLookup"
    [] OTHER -> key

\* counts.<key> = <array>.length, set for the arrays that are not empty
importBvlDatasetCounts(d) ==
  [key \in {k \in CountKeys : Len(d[PayloadField(k)]) > 0} |->
     Len(d[PayloadField(key)])]

CallImportBvlDataset ==
  /\ \E d \in bvl.data.datasets :
       \E r \in {IF DbMissing(db)
                   THEN [s |-> Active, ok |-> FALSE, err |-> ErrNotInit]
                   ELSE importBvlDatasetItems(build, Active, fk, d)} :
         /\ SetActive(r.s)
         /\ tableColumnCache' = IF r.ok THEN <<>> ELSE tableColumnCache
         /\ bvl' = Answer("importBvlDataset", d, r.ok, r.err,
                          IF r.ok THEN importBvlDatasetCounts(d) ELSE <<>>,
                          {}, {}, {})
  /\ UNCHANGED <<build, opfs, sqlite3, db, dbKind, isInitialized, currentMode,
                 fk, job, pendingInit, pendingImport, last, hist, nreq, mig,
                 syncVars,
                 uiVars>>

\* the error of BEGIN TRANSACTION on a connection that cannot open one
ErrBegin == "cannot start a transaction"

\* importBvlSqlite as the handler runs it.  begun is whether the engine
\* opens the transaction: PRAGMA foreign_keys = OFF and BEGIN TRANSACTION
\* come before the try block, so a failing BEGIN leaves the enforcement off;
\* on every later exit the finally block restores what it was
CallImportBvlSqlite ==
  /\ \E f \in bvl.data.databases, manifest \in Manifests,
        intact \in BOOLEAN, begun \in BOOLEAN :
       \E r \in {IF DbMissing(db) \/ ~sqlite3
                   THEN SqliteAnswer(Active, tableColumnCache, FALSE,
                                     ErrNotInit, <<>>, {}, {})
                 ELSE IF f.valid /\ ~begun
                   THEN SqliteAnswer(Active, tableColumnCache, FALSE,
                                     ErrBegin, <<>>, {}, {})
                   ELSE importBvlSqlite(tableColumnCache, Active, f,
                                        manifest, intact, IsoOf(1))} :
         /\ SetActive(r.s)
         /\ tableColumnCache' = r.cache
         /\ fk' = IF r.err = ErrBegin THEN FALSE ELSE fk
         /\ bvl' = Answer("importBvlSqlite", f, r.ok, r.err, r.counts, {},
                          r.before, r.after)
  /\ UNCHANGED <<build, opfs, sqlite3, db, dbKind, isInitialized, currentMode,
                 job, pendingInit, pendingImport, last, hist, nreq, mig,
                 syncVars,
                 uiVars>>

\* importDB in memory mode: the database is replaced by the one the bytes
\* hold and is configured anew
CallImportDB ==
  /\ ~DbMissing(db)
  /\ currentMode = "memory"
  /\ \E bytes \in BvlSnapshots :
       /\ mem' = bytes.s
       /\ bvl' = Answer("importDB", Null, TRUE, NoError, <<>>, {}, {}, {})
  /\ fk' = TRUE
  /\ UNCHANGED <<build, opfs, sqlite3, db, dbKind, isInitialized, currentMode,
                 file, job, pendingInit, pendingImport, last, hist, nreq,
                 tableColumnCache, mig, syncVars,
                 uiVars>>

CallQueryZulassung ==
  /\ ~DbMissing(db)
  /\ \E payload \in Filters :
       \E c \in {QueryColumns(tableColumnCache, Active)} :
         /\ tableColumnCache' = c.cache
         /\ bvl' =
              IF ~(QueryTables(payload) \subseteq Active.tables)
                THEN Answer("queryZulassung", payload, FALSE, ErrNoTable,
                            <<>>, {}, {}, {})
              ELSE IF ~(/\ KnowsColumns(Active, "bvl_mittel", c.mittel)
                        /\ KnowsColumns(Active, "bvl_awg", c.awg))
                THEN Answer("queryZulassung", payload, FALSE, ErrNoColumn,
                            <<>>, {}, {}, {})
              ELSE Answer("queryZulassung", payload, TRUE, NoError, <<>>,
                          queryZulassungResults(c.mittel, c.awg, Active,
                                                payload), {}, {})
  /\ UNCHANGED <<build, opfs, sqlite3, db, dbKind, isInitialized, currentMode,
                 fk, file, mem, job, pendingInit, pendingImport, last, hist,
                 nreq, mig, syncVars,
                 uiVars>>

CallListBvlMittel ==
  /\ ~DbMissing(db)
  /\ \E c \in {getTableColumns(tableColumnCache, Active, "bvl_mittel")} :
       /\ tableColumnCache' = c.cache
       /\ bvl' =
            IF "bvl_mittel" \notin Active.tables
              THEN Answer("listBvlMittel", Null, FALSE, ErrNoTable, <<>>, {},
                          {}, {})
            ELSE IF ~KnowsColumns(Active, "bvl_mittel", c.columns)
              THEN Answer("listBvlMittel", Null, FALSE, ErrNoColumn, <<>>,
                          {}, {}, {})
            ELSE Answer("listBvlMittel", Null, TRUE, NoError, <<>>,
                        listBvlMittelResults(c.columns, Active), {}, {})
  /\ UNCHANGED <<build, opfs, sqlite3, db, dbKind, isInitialized, currentMode,
                 fk, file, mem, job, pendingInit, pendingImport, last, hist,
                 nreq, mig, syncVars,
                 uiVars>>

\* an initialized worker of the current build in memory mode
InitializedWorker ==
  /\ build = "current"
  /\ variant = "A"
  /\ remote = NoRawData
  /\ sync = SyncIdle
  /\ opfs = FALSE
  /\ sqlite3 = TRUE
  /\ db = "open"
  /\ dbKind = "memory"
  /\ isInitialized = TRUE
  /\ currentMode = "memory"
  /\ fk = TRUE
  /\ file = EmptyStore
  /\ mem = ApplySchemaOf(build, EmptyStore, NoInjection).s
  /\ job = NoJob
  /\ pendingInit = <<>>
  /\ pendingImport = <<>>
  /\ last = NoResponse
  /\ hist = NoHistory
  /\ nreq = 0
  /\ tableColumnCache = <<>>
  /\ mig = NoMigration
  /\ channel = NoChannel
  /\ zulassung = NoSearch

(***************************************************************************)
(* The calls with a handful of payloads: the scenario of the README, the   *)
(* exclusion flags, a dangling reference, foreign databases of several     *)
(* shapes.                                                                 *)
(***************************************************************************)
NoEntries == <<>>

\* one product given as {kennr, mittelname, geringes_risiko: "J"} with one
\* application
DScenario ==
  Dataset(<<MittelItem("001-00", Null, "TestMittel", Null, "J", NoPayload)>>,
          <<AwgRow("A1", "001-00", Null)>>, NoEntries, NoEntries, NoEntries,
          NoEntries, NoEntries, NoEntries)

\* a culture allowed and excluded for the same application, with labels
DFlags ==
  Dataset(<<MittelItem("k1", "Alfa", Null, Null, "1", NoPayload)>>,
          <<AwgRow("a1", "k1", Null)>>,
          <<AwgKultur("a1", "c1", 0), AwgKultur("a1", "c1", 1)>>,
          <<AwgSchadorg("a1", "p1", 0)>>, NoEntries, NoEntries,
          <<Lookup("c1", "Apfel")>>, <<Lookup("p1", "Mehltau")>>)

\* the same (application, culture, excluded flag) twice
DSameFlag ==
  Dataset(<<MittelItem("k1", "Alfa", Null, Null, "1", NoPayload)>>,
          <<AwgRow("a1", "k1", Null)>>,
          <<AwgKultur("a1", "c1", 0), AwgKultur("a1", "c1", 0)>>,
          NoEntries, NoEntries, NoEntries, NoEntries, NoEntries)

\* an application of a product that is not in the payload
DOrphan ==
  Dataset(<<MittelItem("k1", "Alfa", Null, Null, "1", NoPayload)>>,
          <<AwgRow("a1", "k1", Null), AwgRow("a2", "k9", Null)>>, NoEntries,
          NoEntries, NoEntries, NoEntries, NoEntries, NoEntries)

\* an application whose only association with the culture is an exclusion
DExcluded ==
  Dataset(<<MittelItem("k1", "Alfa", Null, Null, "1", NoPayload)>>,
          <<AwgRow("a1", "k1", Null)>>, <<AwgKultur("a1", "c1", 1)>>,
          NoEntries, NoEntries, NoEntries, <<Lookup("c1", "Apfel")>>,
          NoEntries)

BvlDatasets == {DScenario, DFlags, DSameFlag, DOrphan, DExcluded}

RowsOf(mittel, awg, kultur, lookup) ==
  [t \in DataTables |->
     CASE t = "bvl_mittel" -> mittel
       [] t = "bvl_awg" -> awg
       [] t = "bvl_awg_kultur" -> kultur
       [] t = "bvl_lookup_kultur" -> lookup
       [] OTHER -> {}]

\* an export of the current schema; the name is in the payload only
FStandard ==
  ForeignDb(BvlTables, MittelColumns,
            RowsOf({MittelRow("k5", Null, Null, Null, Null, Null,
                              Payload([mittelname |-> "Beta"]))},
                   {AwgRow("a5", "k5", Null)}, {AwgKultur("a5", "c5", 0)},
                   {Lookup("c5", "Birne")}),
            [lastSyncHash |-> "h9", lastSyncIso |-> "t9"])

\* an application whose product is not in the database
FOrphan ==
  ForeignDb(BvlTables, MittelColumns,
            RowsOf({MittelRow("k6", "Gamma", Null, Null, Null, "0",
                              NoPayload)},
                   {AwgRow("a6", "k6", Null), AwgRow("a7", "k9", Null)}, {},
                   {}),
            NoMeta)

\* a database with the products and applications only
FParents ==
  ForeignDb({"bvl_mittel", "bvl_awg"}, MittelColumns,
            RowsOf({MittelRow("k7", "Delta", Null, Null, Null, "0",
                              NoPayload)},
                   {AwgRow("a8", "k7", Null)}, {}, {}),
            NoMeta)

\* a bvl_mittel table of another application: no column of ours
FOtherMittel ==
  ForeignDb(BvlTables, <<"id", "title">>,
            RowsOf({MittelRow(Null, Null, Null, Null, Null, Null,
                              NoPayload)},
                   {AwgRow("a5", "k5", Null)}, {}, {}),
            NoMeta)

\* a bvl_mittel table that calls the name column mittel_name
FSynonym ==
  ForeignDb(BvlTables, <<"kennr", "name", "mittel_name", "payload_json">>,
            RowsOf({MittelRow("k8", Null, Null, "Eta", Null, Null,
                              Payload([mittelname |-> "Beta"]))},
                   {AwgRow("a9", "k8", Null)}, {}, {}),
            NoMeta)

ForeignDbs ==
  {FStandard, FOrphan, FParents, FOtherMittel, FSynonym, NoDatabase}

InitBvl ==
  /\ InitializedWorker
  /\ bvl = [NoAnswer EXCEPT !.data = Held(BvlDatasets, ForeignDbs)]

NextBvl ==
  \/ CallImportBvlDataset
  \/ CallImportBvlSqlite
  \/ CallImportDB
  \/ CallQueryZulassung
  \/ CallListBvlMittel

SpecBvl == InitBvl /\ [][NextBvl]_vars

(***************************************************************************)
(* The calls on one product whose name and approval end are spread over    *)
(* the columns and the payload in every way: the caller holds one dataset  *)
(* or one database file with that product and one application.             *)
(***************************************************************************)
\* the name each key of the payload carries, so that the key a reader took
\* the name from shows in the answer
NameUnder ==
  [mittelname |-> "Beta", mittel_name |-> "Gamma", mittelName |-> "Delta",
   name |-> "Zeta"]

NamePayloads ==
  {Payload([k \in keys |-> NameUnder[k]]) : keys \in SUBSET DOMAIN NameUnder}
    \cup {Payload([mittelname |-> "\t", mittelName |-> "Delta"]),
          Payload([mittelname |-> " ", name |-> "Zeta"])}

NameCells == {Null, " ", "Alfa"}

ExpiryCells == {Null, " ", "bald", "2000-01-01", "2999-12-31"}

ExpiryPayloads ==
  {NoPayload, Payload([gueltigBis |-> "2000-01-01"]),
   Payload([gueltig_bis |-> "2000-01-01"]),
   Payload([zulassungsende |-> "2999-12-31"])}

ProductDataset(item, zulassungsende) ==
  Dataset(<<item>>, <<AwgRow("a1", item.kennr, zulassungsende)>>, NoEntries,
          NoEntries, NoEntries, NoEntries, NoEntries, NoEntries)

ProductDatasets ==
  {ProductDataset(MittelItem("k1", n, Null, Null, Null, p), Null) :
     n \in NameCells, p \in NamePayloads}
    \cup {ProductDataset(MittelItem("k1", "Alfa", Null, z, Null, p), Null) :
            z \in ExpiryCells, p \in ExpiryPayloads}
    \cup {ProductDataset(MittelItem("k1", "Alfa", Null, z, Null, NoPayload),
                         "2000-01-01") : z \in {Null, "2999-12-31"}}

\* the column lists of bvl_mittel in the database files: the one of the
\* current schema and lists with the other names of the name column
ForeignMittelColumns ==
  {MittelColumns, <<"kennr", "name", "mittel_name", "payload_json">>,
   <<"kennr", "mittelname", "mittel_name", "payload_json">>}

ProductDb(columns, m) ==
  ForeignDb(BvlTables, columns,
            RowsOf({m}, {AwgRow("a1", m.kennr, Null)}, {}, {}), NoMeta)

ProductDbs ==
  {ProductDb(columns, MittelRow("k1", n, mn, m_n, Null, Null, p)) :
     columns \in ForeignMittelColumns,
     n \in {Null, "Alfa"}, mn \in {Null, "Eta"}, m_n \in {Null, "Theta"},
     p \in {Payload([k \in keys |-> NameUnder[k]]) :
              keys \in SUBSET {"mittelname", "mittelName"}}}

\* a cell of a column the table of the file does not have is not there
WellFormed(f) ==
  \A m \in f.rows["bvl_mittel"] :
    /\ includes(f.mittelColumns, "name") \/ m.name = Null
    /\ includes(f.mittelColumns, "mittelname") \/ m.mittelname = Null
    /\ includes(f.mittelColumns, "mittel_name") \/ m.mittel_name = Null

InitQuery ==
  /\ InitializedWorker
  /\ \/ \E d \in ProductDatasets :
          bvl = [NoAnswer EXCEPT !.data = Held({d}, {})]
     \/ \E f \in {x \in ProductDbs : WellFormed(x)} :
          bvl = [NoAnswer EXCEPT !.data = Held({}, {f})]

NextQuery ==
  \/ CallImportBvlDataset
  \/ CallImportBvlSqlite
  \/ CallImportDB
  \/ CallQueryZulassung
  \/ CallListBvlMittel

SpecQuery == InitQuery /\ [][NextQuery]_vars

(***************************************************************************)
(* The worker's message handler with the search of both views.             *)
(***************************************************************************)
InitMessages ==
  /\ build = "current"
  /\ variant \in Variants
  /\ opfs = FALSE
  /\ file = EmptyStore
  /\ WorkerStart
  /\ mig = NoMigration
  /\ bvl = NoAnswer
  /\ remote = NoRawData
  /\ sync = SyncIdle
  /\ channel = NoChannel
  /\ zulassung = NoSearch

NextMessages ==
  \/ PostRequest
  \/ handleSearch
  \/ onmessage
  \/ resume
  \/ onResponse

SpecMessages == InitMessages /\ [][NextMessages]_vars

\* every awaited promise settles, and posted messages are taken
SpecMessagesFair ==
  /\ SpecMessages
  /\ WF_vars(onmessage)
  /\ WF_vars(resume)

(***************************************************************************)
(* Properties.                                                             *)
(***************************************************************************)

\* C1: when a row insert of importBvlDataset fails (a foreign key or a
\* primary key violation), the call fails with that error and every BVL
\* table, regulatory and lookup, holds exactly the rows it held before the
\* call.
ImportAtomicity ==
  (/\ last.action = "importBvlDataset"
   /\ ~last.ok
   /\ last.err \in {ErrForeignKey, ErrUnique}
   /\ job.op = "none")
    => Active.rows = last.preRows

\* a dangling kennr failed the import of a database that held product and
\* lookup rows, and the rows are back
ImportAtomicityWitness ==
  /\ last.action = "importBvlDataset"
  /\ ~last.ok
  /\ last.err = ErrForeignKey
  /\ job.op = "none"
  /\ last.preRows["bvl_mittel"] # {}
  /\ last.preRows["bvl_lookup_kultur"] # {}
  /\ Active.rows = last.preRows

\* C2: whatever the interleaving of requests, a handler that reads the BVL
\* tables sees the rows as they are outside any import transaction, never
\* the partly deleted or partly inserted rows of a running import.
ImportIsolation == last.seen = last.committed

\* an import is half done (rows deleted, some inserted) while the
\* continuation of an init call is waiting, after a query saw the rows as
\* they were before the import
ImportIsolationWitness ==
  /\ job.op = "importBvlDataset"
  /\ job.pos > 1
  /\ Active.rows # job.snap.rows
  /\ Len(pendingInit) > 0
  /\ last.action = "queryZulassung"
  /\ last.ok
  /\ last.seen = job.snap.rows

\* C3: the user_version of the active database never decreases, whatever
\* the worker does (init with its migrations, importBvlDataset, importDB,
\* the other operations), and no migration step runs whose target is not
\* above the version found.
VersionNeverDecreases ==
  /\ db = "open" => Active.ver >= hist.maxVer
  /\ hist.ranAbove

\* C4: applySchema on a database that an earlier applySchema migrated
\* returns without error and leaves the version and the set of tables as
\* they were, whatever version (0 to 4) the database started from.
MigrationIdempotent ==
  (mig.runs >= 2 /\ mig.okBefore)
    => /\ mig.ok
       /\ mig.s.ver = mig.pre.ver
       /\ mig.s.tables = mig.pre.tables

\* a database that started at version 0 was migrated to the build's last
\* version and applySchema ran on it again
MigrationIdempotentWitness ==
  /\ mig.runs = 2
  /\ mig.okBefore
  /\ mig.start = 0
  /\ mig.pre.ver = TargetVersion(build)
  /\ mig.s.ver = TargetVersion(build)

\* C5: every migration step runs in one transaction: when a step fails the
\* database is as it was when the step started (its changes rolled back,
\* the version unchanged), no later step has run, and applySchema throws.
MigrationStepsAtomic ==
  ~mig.ok => /\ mig.s = mig.before
             /\ \A n \in mig.ran : n <= mig.failed

\* C6: after a failed init the worker holds no usable database handle, and
\* every operation other than init is rejected until an init succeeds.
FailedInitKeepsNothing ==
  /\ (hist.failedInit /\ ~isInitialized) => db # "open"
  /\ (last.action \notin {"init", "none"} /\ last.pre.failedInit) => ~last.ok

\* C7: while no init call has completed (none was issued, or one is still
\* loading the engine), a request other than init is answered with
\* 'Database not initialized' and changes nothing in the worker.
NotInitializedRejected ==
  [][(hist.initsDone = 0 /\ nreq' # nreq /\ pendingInit' = pendingInit)
       => /\ ~last'.ok
          /\ last'.err = ErrNotInit
          /\ UNCHANGED <<sqlite3, db, dbKind, isInitialized, currentMode, fk,
                         file, mem, job, pendingImport, hist>>]_vars

\* an import request was rejected while an init call was loading the engine
NotInitializedRejectedWitness ==
  /\ hist.initsDone = 0
  /\ Len(pendingInit) > 0
  /\ last.action = "importBvlDataset"
  /\ ~last.ok
  /\ last.err = ErrNotInit

\* C8: every init call that succeeds, the repeated call on an initialized
\* worker included, returns the storage mode that is active.
InitReturnsActiveMode ==
  (last.action = "init" /\ last.ok) => last.mode = dbKind

\* C9: init calls that interleave create one database handle between them
\* and migrate once: at most one init call ends with a handle of its own.
InitCreatesOneHandle == hist.okInitHandles <= 1

\* C10: a sync that fetches the payload of the last successful sync returns
\* 'no-change', imports nothing, leaves the regulatory rows and lastSyncHash
\* as they were, and appends exactly one sync-log row: ok = 1, message
\* 'no-change', the same hash.
NoOpSync ==
  (sync.pc = "done" /\ sync.currentHash # Null
     /\ sync.currentHash = sync.lastSyncHash)
    => /\ sync.status = "no-change"
       /\ sync.imports = 0
       /\ Active.rows = sync.start.rows
       /\ Active.meta["lastSyncHash"] = sync.start.hash
       /\ Len(Active.log) = sync.start.logLen + 1
       /\ Active.log[Len(Active.log)]
            = SyncLogEntry(1, "no-change", sync.currentHash)

\* C11: a sync attempt that returns 'failed', whatever step failed, leaves
\* every regulatory table with exactly the rows it had before the attempt.
FailedSyncKeepsRows ==
  (sync.pc = "done" /\ sync.status = "failed")
    => \A t \in RegTables : Active.rows[t] = sync.start.rows[t]

\* C12: a sync attempt that ends in failure has appended, before it returns,
\* one log row with ok = 0, the error message and a null hash.
FailureLogged ==
  (sync.pc = "done" /\ sync.status = "failed")
    => /\ Len(Active.log) = sync.start.logLen + 1
       /\ Active.log[Len(Active.log)] = SyncLogEntry(0, sync.err, Null)

\* C13: the endpoints are fetched one after another in the order mittel,
\* awg, awg_kultur, awg_schadorg, awg_aufwand, awg_wartezeit; when the fetch
\* of an endpoint fails no later endpoint is fetched, the failed one is not
\* fetched again, and the attempt ends as failed with that endpoint's error.
FetchOrder ==
  /\ sync.fetched =
       SubSeq(<<"mittel", "awg", "awg_kultur", "awg_schadorg", "awg_aufwand",
                "awg_wartezeit">>, 1, Len(sync.fetched))
  /\ sync.pc = "fetch" => Len(sync.fetched) = sync.i
  /\ sync.cause # Null
       => /\ sync.pc \in {"failing", "done"}
          /\ Len(sync.fetched) = sync.i
          /\ sync.err = FetchErrorMessage(variant, sync.fetched[sync.i],
                                          sync.cause)
          /\ sync.pc = "done" => sync.status = "failed"

FetchOrderWitness ==
  /\ sync.pc = "done"
  /\ sync.status = "failed"
  /\ sync.cause = "http500"
  /\ sync.fetched = <<"mittel", "awg", "awg_kultur">>

\* C14: lastSyncHash holds a new hash only after the import of that payload
\* has committed, and the success row is appended only after the new hash
\* and the sync time are stored; lastSyncHash never names a payload whose
\* import did not commit.
HashAfterImport ==
  /\ Active.meta["lastSyncHash"] \in {Null} \cup sync.imported
  /\ \A k \in DOMAIN Active.log :
       (Active.log[k].ok = 1 /\ Active.log[k].message = SuccessMessage(variant))
         => Active.log[k].payload_hash \in sync.imported
  /\ (sync.pc = "logSuccess" \/ (sync.pc = "done" /\ sync.status = "updated"))
       => /\ sync.currentHash \in sync.imported
          /\ Active.meta["lastSyncHash"] = sync.currentHash
          /\ Active.meta["lastSyncIso"] = IsoOf(sync.n)

HashAfterImportWitness ==
  /\ sync.pc = "done"
  /\ sync.status = "updated"
  /\ sync.n = 2
  /\ Active.meta["lastSyncHash"] = sync.currentHash
  /\ Len(Active.log) = 2

\* C17: every request of fetchCollection, also one made with the caller's
\* abort signal as syncBvlData makes it, is aborted when the 30-second
\* ceiling expires: no request is still pending after its timer has fired,
\* and the failure that ends it is the client's timeout failure.
RequestTimeout ==
  /\ sync.expired => sync.pc # "fetch"
  /\ sync.cause = "timeout"
       => sync.err = FetchErrorMessage(variant, sync.fetched[sync.i],
                                       "timeout")

\* C18: when an endpoint fetch fails, the failure result of syncBvlData
\* carries the class of the cause: timeout, network, not_found (HTTP 404),
\* server (HTTP 5xx), unknown (anything else).
ErrorClassMatches ==
  (sync.pc = "done" /\ sync.status = "failed" /\ sync.cause # Null)
    => sync.errorType =
         CASE sync.cause = "timeout" -> "timeout"
           [] sync.cause = "network" -> "network"
           [] sync.cause = "http404" -> "not_found"
           [] sync.cause = "http500" -> "server"
           [] OTHER -> "unknown"

\* C16: every sync attempt ends: provided each fetch and each storage call
\* returns or fails, syncBvlData resolves with 'updated', 'no-change' or
\* 'failed', and afterwards the busy flag of the UI is cleared.
SyncTerminates ==
  /\ (sync.pc \notin {"idle", "done"})
       ~> (sync.pc = "done"
             /\ sync.status \in {"updated", "no-change", "failed"})
  /\ sync.busy ~> ~sync.busy

SyncTerminatesWitness ==
  /\ sync.pc = "done"
  /\ sync.status = "failed"
  /\ sync.err = "disk I/O error"
  /\ Len(Active.log) = sync.start.logLen
  /\ ~sync.busy

LookupsKept ==
  [][(/\ job.op = "importBvlDataset"
      /\ job'.op = "none"
      /\ last'.ok
      /\ \A k \in DOMAIN job.entries : job.entries[k].t \notin LookupTables)
       => \A t \in LookupTables : Active'.rows[t] = job.snap.rows[t]]_vars

\* C19: the column cache is cleared after every schema migration and every
\* full replace of the data (importBvlDataset, importBvlSqlite, importDB),
\* so the list an operation gets from getTableColumns(t) is the column list
\* of table t in the live database.
ColumnCacheCoherent ==
  [][(/\ nreq' = nreq + 1
      /\ last'.action = "queryZulassung"
      /\ db = "open"
      /\ build = "current")
       => \A t \in {"bvl_mittel", "bvl_awg"} :
            getTableColumns(tableColumnCache, Active, t).columns
              = TableInfo(Active, t)]_vars

\* C21: in importBvlSqlite a foreign table that has no column in common with
\* the local table of the same name is skipped: the import as a whole still
\* succeeds and the counts it returns hold that table with a count of zero.
SkippedTableCounted ==
  (bvl.op = "importBvlSqlite" /\ bvl.ok)
    => \A t \in bvl.src.tables \ {"bvl_sync_log"} :
         commonColumns(ForeignTableInfo(bvl.src, t), TableInfo(Active, t))
           = {}
         => t \in DOMAIN bvl.counts /\ bvl.counts[t] = 0

\* C22: after any sequence of committed operations (importBvlDataset,
\* importBvlSqlite, sync) every bvl_awg row's kennr names an existing
\* bvl_mittel row and every culture, pest, rate and waiting-period row names
\* an existing bvl_awg row.
ReferentialIntegrity ==
  \A t \in {"bvl_awg"} \cup ChildTables :
    \A r \in Active.rows[t] : ReferencesParent(Active, t, r)

\* C23: after any delete of a parent row no child row referencing it
\* remains: when an application goes, its culture, pest, rate and
\* waiting-period rows go with it, and when a product goes, its applications
\* go with it.
CascadeDelete ==
  [][/\ \A a \in Active.rows["bvl_awg"] :
          (\A x \in Active'.rows["bvl_awg"] : x.awg_id # a.awg_id)
            => \A t \in ChildTables :
                 \A r \in Active'.rows[t] : r.awg_id # a.awg_id
     /\ \A m \in Active.rows["bvl_mittel"] :
          (\A x \in Active'.rows["bvl_mittel"] : x.kennr # m.kennr)
            => \A a \in Active'.rows["bvl_awg"] : a.kennr # m.kennr]_vars

\* C24: two culture rows of one application and one crop code with
\* different excluded flags are both stored, while two rows with the same
\* (application, crop code, excluded flag) make the mutating call fail with
\* a primary-key violation.
ExclusionFlagUnique ==
  bvl.op = "importBvlDataset" =>
    LET ks == bvl.src.awg_kultur
    IN /\ bvl.ok =>
            \A i, j \in DOMAIN ks :
              (/\ ks[i].awg_id = ks[j].awg_id
               /\ ks[i].kultur = ks[j].kultur
               /\ ks[i].ausgenommen # ks[j].ausgenommen)
                => {ks[i], ks[j]} \subseteq Active.rows["bvl_awg_kultur"]
       /\ (\E i, j \in DOMAIN ks :
             /\ i # j
             /\ PrimaryKey("bvl_awg_kultur", ks[i])
                  = PrimaryKey("bvl_awg_kultur", ks[j]))
            => ~bvl.ok /\ bvl.err = ErrUnique

\* C25: for a product imported through importBvlDataset with its low-risk
\* flag given as "J", together with one application for it,
\* queryZulassung({mittel: kennr}) returns exactly one row, with that kennr
\* and geringes_risiko true.
LowRiskFlagJ ==
  (/\ bvl.op = "queryZulassung"
   /\ bvl.src = Filter(Null, Null, Null, FALSE, bvl.src.mittel))
    => \A m \in Active.rows["bvl_mittel"] :
         (/\ m.geringes_risiko = "J"
          /\ m.kennr = bvl.src.mittel
          /\ Cardinality({a \in Active.rows["bvl_awg"] :
                            a.kennr = m.kennr}) = 1)
           => /\ bvl.ok
              /\ Cardinality(bvl.rows) = 1
              /\ \A r \in bvl.rows :
                   r.kennr = m.kennr /\ r.geringes_risiko = TRUE

\* a text that is NULL or white space only
Blank(x) == x = Null \/ trim(x) = ""

\* the product's name is in none of the name columns and under one of the
\* keys mittelname, mittel_name, mittelName of its payload
NameOnlyInPayload(s, kennr) ==
  \E m \in s.rows["bvl_mittel"] :
    /\ m.kennr = kennr
    /\ Blank(m.name) /\ Blank(m.mittelname) /\ Blank(m.mittel_name)
    /\ includes(TableInfo(s, "bvl_mittel"), "payload_json")
    /\ \E k \in {"mittelname", "mittel_name", "mittelName"} :
         ~Blank(json_extract(m.payload_json, k))

\* C26: for every product whose name is present only in the JSON payload,
\* under any of the keys mittelname, mittel_name, mittelName, the name
\* queryZulassung returns equals the name listBvlMittel returns for it.
SynonymResolutionStable ==
  [][(/\ bvl.op = "queryZulassung" /\ bvl.ok
      /\ bvl'.op = "listBvlMittel" /\ bvl'.ok)
       => \A r \in bvl.rows, l \in bvl'.rows :
            (r.kennr = l.kennr /\ NameOnlyInPayload(Active, r.kennr))
              => r.name = l.name]_vars

SynonymResolutionStableWitness ==
  /\ bvl.op = "listBvlMittel" /\ bvl.ok
  /\ \E l \in bvl.rows :
       /\ NameOnlyInPayload(Active, l.kennr)
       /\ l.name = "Delta"
       /\ \E r \in queryZulassungResults(
                      TableInfo(Active, "bvl_mittel"),
                      TableInfo(Active, "bvl_awg"), Active,
                      Filter(Null, Null, Null, TRUE, Null)) :
            r.kennr = l.kennr /\ r.name = l.name

\* C27: write-time hydration applies the resolution order of the read-time
\* projection: for every product row and every combination of populated
\* name columns and payload keys, the name queryZulassung resolves after
\* hydrateBvlMittelFromPayload has run equals the name it resolves before.
HydrationKeepsName ==
  (bvl.op = "importBvlSqlite" /\ bvl.ok) => bvl.after = bvl.before

\* the values the display name of a product is resolved from: the cells of
\* the name columns the table has and the payload's name keys
NameCandidates(mittelColumns, m) ==
  (IF includes(mittelColumns, "name") THEN {m.name} ELSE {})
    \cup (IF includes(mittelColumns, "mittelname") THEN {m.mittelname} ELSE {})
    \cup (IF includes(mittelColumns, "mittel_name")
            THEN {m.mittel_name} ELSE {})
    \cup (IF includes(mittelColumns, "payload_json")
            THEN {json_extract(m.payload_json, k) :
                    k \in {"mittelname", "mittel_name", "mittelName", "name"}}
            ELSE {})

\* C28: the free-text search covers every name candidate: a record one of
\* whose name values, in an existing synonym column or under a payload key
\* used to resolve the display name, contains the search term (in any case)
\* is returned by queryZulassung({text}), subject to the other filters.
TextSearchCoversNames ==
  (/\ bvl.op = "queryZulassung" /\ bvl.ok
   /\ bvl.src = Filter(Null, Null, bvl.src.text, FALSE, Null)
   /\ bvl.src.text # Null)
    => \A m \in Active.rows["bvl_mittel"], a \in Active.rows["bvl_awg"] :
         (/\ m.kennr # Null /\ m.kennr = a.kennr
          /\ ExpiryCondition(TableInfo(Active, "bvl_mittel"),
                             TableInfo(Active, "bvl_awg"), m, a)
          /\ \E c \in NameCandidates(TableInfo(Active, "bvl_mittel"), m) :
               LIKE(c, bvl.src.text))
           => \E r \in bvl.rows : r.kennr = m.kennr /\ r.awg_id = a.awg_id

\* C30: with includeExpired absent or false queryZulassung returns no row
\* whose resolved approval end, the zul_ende of the returned row, lies
\* before the current date.
NoExpiredByDefault ==
  (bvl.op = "queryZulassung" /\ bvl.ok /\ ~bvl.src.includeExpired)
    => \A r \in bvl.rows :
         ~(/\ r.zul_ende # Null
           /\ DATE(r.zul_ende) # 0
           /\ DATE(r.zul_ende) < Today)

\* the term is in the lookup label of a culture or pest code of application a
InLabelOf(s, a, term) ==
  \/ \E ak \in s.rows["bvl_awg_kultur"], lk \in s.rows["bvl_lookup_kultur"] :
       ak.awg_id = a.awg_id /\ lk.code = ak.kultur /\ LIKE(lk.label, term)
  \/ \E aso \in s.rows["bvl_awg_schadorg"],
        ls \in s.rows["bvl_lookup_schadorg"] :
       aso.awg_id = a.awg_id /\ ls.code = aso.schadorg /\ LIKE(ls.label, term)

IntegrityCheckAfterCommit ==
  [][(bvl'.op = "importBvlSqlite" /\ bvl'.err = ErrIntegrity)
       => \E manifest \in Manifests :
            \E r \in {importBvlSqlite(tableColumnCache, Active, bvl'.src,
                                      manifest, TRUE, IsoOf(1))} :
              /\ ~bvl'.ok
              /\ r.ok
              /\ Active'.rows = r.s.rows]_vars

\* the rows a local table holds
LocalRows(s, t) ==
  IF t = "bvl_sync_log" THEN s.log
  ELSE IF t = "bvl_meta" THEN s.meta
  ELSE s.rows[t]

\* C38: in importBvlSqlite a table that is skipped (no column in common with
\* the local table, or bvl_sync_log, which is never overwritten) keeps
\* exactly the local rows it had before the import.
SkippedTableKeepsRows ==
  [][(bvl'.op = "importBvlSqlite" /\ bvl'.ok)
       => \A t \in bvl'.src.tables :
            (\/ t = "bvl_sync_log"
             \/ commonColumns(ForeignTableInfo(bvl'.src, t),
                              TableInfo(Active', t)) = {})
              => LocalRows(Active', t) = LocalRows(Active, t)]_vars

\* C37: foreign-key enforcement is enabled at the start of every operation
\* that runs after a successful init: importBvlSqlite, which switches it off
\* for the copy, restores the previous setting on every exit path (commit,
\* rollback after an error, failure to open the transaction), and importDB
\* re-enables it on the new handle.
ForeignKeysEnabled ==
  (isInitialized /\ db = "open" /\ job.op = "none") => fk

\* C33: the per-table counts returned by a successful importBvlDataset
\* equal, for each supplied table, the number of rows that table holds after
\* the commit.
ImportCountsMatchRows ==
  (bvl.op = "importBvlDataset" /\ bvl.ok)
    => \A key \in DOMAIN bvl.counts :
         bvl.counts[key] = Cardinality(Active.rows["bvl_" \o key])

\* C39: queryZulassung with a culture filter returns only applications that
\* cover that code, that is, that have an association row for the code with
\* the excluded flag unset; an application whose only association with the
\* code is marked excluded is not returned.
CultureFilterCoversCode ==
  (bvl.op = "queryZulassung" /\ bvl.ok /\ bvl.src.culture # Null)
    => \A r \in bvl.rows :
         \E ak \in Active.rows["bvl_awg_kultur"] :
           /\ ak.awg_id = r.awg_id
           /\ ak.kultur = bvl.src.culture
           /\ ak.ausgenommen = 0

\* the rows of the user tables of a database
UserRows(s) == <<s.mediums, s.user>>

\* the rows of the BVL tables of a database
BvlRows(s) == <<s.rows, s.meta, s.log, s.extras>>

\* C40: migrations preserve user data: for every starting schema version
\* 0..3 and any existing content, running applySchema leaves the rows of the
\* user tables (meta, measurement_methods, mediums, history, history_items)
\* unchanged, and from starting version 2 or 3 it also leaves all BVL
\* tables' rows unchanged.
MigrationsPreserveData ==
  (mig.runs > 0 /\ build = "current")
    => /\ mig.pre.ver \in 0..3 => UserRows(mig.s) = UserRows(mig.pre)
       /\ mig.pre.ver \in {2, 3} => BvlRows(mig.s) = BvlRows(mig.pre)

\* C36: once init has succeeded, whenever any operation starts executing,
\* the worker's db variable refers to an open database: no request handled
\* while importDB is awaiting the OPFS import sees a closed handle, and a
\* failed importDB (deserialize error) leaves the previously active database
\* open and in use.
OpenHandle ==
  (hist.okInitHandles > 0 /\ CanDispatch(job)) => db = "open"

\* the rows the regulatory and lookup tables hold after the transformed
\* rows of payload p were imported
StoredRowsOf(p) ==
  importBvlDataset(build, ApplySchemaOf(build, EmptyStore, NoInjection).s,
                   TRUE, TransformOf(variant, p)).s.rows

\* C35: whenever syncBvlData returns 'no-change' for a fetched payload P,
\* the regulatory tables hold exactly the transformed rows of P;
\* equivalently, once a sync has settled, lastSyncHash never names a payload
\* other than the one whose rows are stored, after any sequence of
\* successful and failed syncs.
HashNamesStoredRows ==
  /\ (sync.pc = "done" /\ sync.status = "no-change")
       => Active.rows = StoredRowsOf(sync.rawData)
  /\ sync.pc \in {"idle", "done"}
       => \A p \in RawPayloads :
            Active.meta["lastSyncHash"] = hashData(p)
              => Active.rows = StoredRowsOf(p)

\* the responses posted so far that carry the id
ResponsesTo(id) ==
  {k \in DOMAIN channel.posted : channel.posted[k].id = id}

\* one response per handled request and none for a suspended one, each with
\* the id of a request and either ok = true and no error or ok = false and
\* an error text
Correlated ==
  /\ \A msg \in channel.received :
       /\ Cardinality(ResponsesTo(msg.id))
            = IF msg \in channel.frames THEN 0 ELSE 1
       /\ \A k \in ResponsesTo(msg.id) :
            LET r == channel.posted[k]
            IN /\ r.ok <=> r.error = Null
               /\ ~r.ok => r.error # NoError
               /\ msg.action \notin KnownActions => ~r.ok
  /\ \A k \in DOMAIN channel.posted :
       \E msg \in channel.received : msg.id = channel.posted[k].id

\* C31: for every request message {id, action, payload} the worker posts
\* exactly one response, carrying the same id, with either ok = true and a
\* result or ok = false and an error text (unknown actions give ok = false);
\* this holds also when handlers of different requests interleave at their
\* await points.
RequestResponseCorrelation ==
  /\ []Correlated
  /\ \A id \in 1..MaxMessages :
       (id < channel.next) ~> (ResponsesTo(id) # {})

\* two handlers were suspended and the later request was answered first;
\* a request with an unknown action was answered too
RequestResponseCorrelationWitness ==
  /\ \E j, k \in DOMAIN channel.posted :
       j < k /\ channel.posted[j].id > channel.posted[k].id
  /\ \E msg \in channel.received :
       msg.action \notin KnownActions /\ ResponsesTo(msg.id) # {}
  /\ channel.frames = {}

\* the search whose outcome the view shows: the one the results came from,
\* or the one the error came from
Displayed == MaxOf(zulassung.results, zulassung.error)

\* all searches have settled and the view shows the outcome of the latest
ShowsLatest ==
  (zulassung.pending = {} /\ zulassung.issued # {})
    => \A i \in zulassung.issued : i <= Displayed

\* results never give way to those of an earlier search
ResultsInOrder ==
  zulassung.results' # 0 => zulassung.results' >= zulassung.results

\* C32: when a second search is issued while an earlier one is in flight the
\* earlier one is cancelled; once all searches have settled the view shows
\* the outcome of the latest one; and the results of an earlier search never
\* replace those of a later one.
SupersedingSearch ==
  /\ [](\A i, j \in zulassung.pending : i < j => i \in zulassung.aborted)
  /\ []ShowsLatest
  /\ [][ResultsInOrder]_vars

\* what the order of the responses alone gives, without any cancellation
LatestSearchShown == []ShowsLatest /\ [][ResultsInOrder]_vars

====
